---- MODULE Spec2Model ----
(***************************************************************************)
(* Model of the satellite ground-control message bus:                      *)
(*   - SecurityMonitor (the security/routing hub),                         *)
(*   - OpticsControl   (the priority capture scheduler),                   *)
(*   - CommandInterpreter (the command gate),                              *)
(*   - Database        (the append-only log).                              *)
(* Every component is modelled from its source; the mailboxes are the      *)
(* function `queues` from registered names to FIFO sequences.              *)
(***************************************************************************)
EXTENDS Integers, Sequences, FiniteSets, TLC

VARIABLES
    queues,             \* QueuesDirectory: registered name -> mailbox content (FIFO)
    sent,               \* number of objects the environment has put into mailboxes
    restricted_zones,   \* SecurityMonitor._restricted_zones, in dict insertion order
    security_policies,  \* SecurityMonitor._security_policies
    hub_event,          \* SecurityMonitor._check_events_q: the local `event`
    hub_logged,         \* lines the hub logged while handling hub_event
    hub_up,             \* SecurityMonitor.run has not been left by an exception
    now,                \* time.time(), in tenths of a second
    optics_control_q,   \* OpticsControl._control_q (the control mailbox)
    photo_queue,        \* OpticsControl._photo_queue
    photo_interval,     \* OpticsControl._photo_interval, in tenths of a second
    last_photo_time,    \* OpticsControl._last_photo_time
    is_busy,            \* OpticsControl._is_busy
    optics_quit,        \* OpticsControl._quit
    optics_pc,          \* where OpticsControl.run is
    optics_event,       \* OpticsControl: the object taken last from a mailbox
    optics_logged,      \* lines the scheduler logged in its last step
    gate_role,          \* CommandInterpreter.user.role
    command_counter,    \* CommandInterpreter.command_counter
    gate_seq,           \* number of commands the interpreter has executed
    gate_command,       \* CommandInterpreter._execute_single_command: `cmd`
    gate_logged,        \* lines the interpreter logged for gate_command
    db_file,            \* the log file: whether it exists, and its bytes
    db_i,               \* Database.i
    db_up,              \* the Database object was constructed
    db_records,         \* history: the arguments of every _write so far
    db_restarts,        \* history: number of restarts of the Database
    db_torn             \* history: bytes of the record a crash cut short last

hub_vars == <<restricted_zones, security_policies, hub_event, hub_logged, hub_up>>

optics_vars ==
    <<optics_control_q, photo_queue, photo_interval, last_photo_time, is_busy,
      optics_quit, optics_pc, optics_event, optics_logged>>

gate_vars == <<gate_role, command_counter, gate_seq, gate_command, gate_logged>>

db_vars == <<db_file, db_i, db_up, db_records, db_restarts, db_torn>>

vars == <<queues, sent, now, hub_vars, optics_vars, gate_vars, db_vars>>

---------------------------------------------------------------------------
(* Bounds of the model *)

\* number of objects the environment puts into mailboxes in one behaviour
MaxSent == 3

\* the clock stops advancing at this reading (tenths of a second)
MaxTime == 80

\* the clock advances by this much at a time (tenths of a second)
ClockStep == 20

\* number of commands in the program the interpreter executes
MaxCommands == 3

\* number of restarts of the Database in one behaviour
MaxRestarts == 2

\* records sent to the log when crashes are considered
MaxPhotos == 4

\* messages a producer that never stops keeps waiting in a data mailbox
MaxBacklog == 1

---------------------------------------------------------------------------
(* Mailbox names (config.py is not among the sources; the literals are the *)
(* ones the callers in command_processor.py and run_system.py use)         *)

SECURITY_MONITOR_QUEUE_NAME == "security"
ORBIT_DRAWER_QUEUE_NAME == "orbit_drawer"
OPTICS_CONTROL_QUEUE_NAME == "optics_control"
CAMERA_QUEUE_NAME == "camera"
DATABASE_QUEUE_NAME == "database"
DISPATCHER_QUEUE_NAME == "dispatcher"
SECURITY_INTERCEPTOR_QUEUE_NAME == "security_interceptor"

---------------------------------------------------------------------------
(* Values *)

\* Python None
None == [kind |-> "None"]

\* a (lat, lon) tuple
Point(lat, lon) == [kind |-> "tuple", lat |-> lat, lon |-> lon]

\* an int or float
Number(v) == [kind |-> "number", value |-> v]

\* RestrictedZone(zone_id, lat_bot_left, lon_bot_left, lat_top_right,
\*                lon_top_right, description, severity_level)
RestrictedZone(id, lat1, lon1, lat2, lon2, description, severity) ==
    [kind |-> "RestrictedZone", zone_id |-> id,
     lat_bot_left |-> lat1, lon_bot_left |-> lon1,
     lat_top_right |-> lat2, lon_top_right |-> lon2,
     description |-> description, severity_level |-> severity]

\* Event(source, destination, operation, parameters, extra_parameters, signature)
Event(src, dst, op, params, extra, sig) ==
    [type |-> "Event", source |-> src, destination |-> dst, operation |-> op,
     parameters |-> params, extra_parameters |-> extra, signature |-> sig]

\* isinstance(x, Event)
IsEvent(x) == x.type = "Event"

\* SecurityPolicy(source, destination, operation)
SecurityPolicy(src, dst, op) == [source |-> src, destination |-> dst, operation |-> op]

\* QueuesDirectory.get_queue(name) is not None
Registered(qs, name) == name \in DOMAIN qs

\* Queue.put(x) on the mailbox registered under name
Put(qs, name, x) == [qs EXCEPT ![name] = Append(@, x)]

\* RestrictedZone.contains(lat, lon): boundary inclusive
Contains(zone, lat, lon) ==
    /\ zone.lat_bot_left <= lat /\ lat <= zone.lat_top_right
    /\ zone.lon_bot_left <= lon /\ lon <= zone.lon_top_right

---------------------------------------------------------------------------
(* SecurityMonitor: the security/routing hub *)

\* a line written with _log_message(level, ...)
LogLine(level, what, arg) == [level |-> level, what |-> what, arg |-> arg]

\* the violation line of _check_event: names the user and the zone
LogViolation(user, zone_id) ==
    [level |-> "ERROR", what |-> "violation", arg |-> zone_id, user |-> user]

\* SecurityMonitor.__init__: the installed policies
DefaultPolicies == <<SecurityPolicy("*", "*", "*")>>

\* {zone.zone_id for zone in _restricted_zones.values()}
ZoneIds(zs) == {zs[i].zone_id : i \in 1..Len(zs)}

\* a list of zones in place of the dict: the zone is appended whatever is stored
UpsertZoneAppend(zs, zone) == Append(zs, zone)

\* _restricted_zones[zone.zone_id] = zone: a known key keeps its place in the
\* dict's order and gets the new value, a new key goes to the end
UpsertZone(zs, zone) ==
    IF zone.zone_id \in ZoneIds(zs)
    THEN [i \in 1..Len(zs) |-> IF zs[i].zone_id = zone.zone_id THEN zone ELSE zs[i]]
    ELSE Append(zs, zone)

\* del _restricted_zones[zone_id]
DeleteZone(zs, zone_id) == SelectSeq(zs, LAMBDA z : z.zone_id # zone_id)

\* the condition of security_monitor.py:52 on event.parameters
IsCoordinatePair(p) == p.kind = "tuple"

\* event.extra_parameters.get('user', 'unknown') if event.extra_parameters else 'unknown'
UserOf(event) ==
    IF "user" \in DOMAIN event.extra_parameters
    THEN event.extra_parameters.user
    ELSE "unknown"

\* indices of the zones that contain the point, in iteration order
ContainingZones(zs, lat, lon) == {i \in 1..Len(zs) : Contains(zs[i], lat, lon)}

\* the geofence check applies to this event (security_monitor.py:51-52)
IsGeofenced(event) ==
    /\ event.destination = ORBIT_DRAWER_QUEUE_NAME
    /\ event.operation = "update_photo_map"
    /\ IsCoordinatePair(event.parameters)

\* CheckEvent with the loop over the zones left after its first iteration
CheckEventFirstZoneOnly(event, zs) ==
    IF IsGeofenced(event) /\ zs # <<>>
       /\ Contains(zs[1], event.parameters.lat, event.parameters.lon)
    THEN [allow |-> FALSE,
          logged |-> <<LogViolation(UserOf(event), zs[1].zone_id)>>]
    ELSE [allow |-> TRUE, logged |-> <<>>]

\* SecurityMonitor._check_event: the verdict and the lines it logs.
\* The installed policies are not an argument: the method never reads them.
CheckEvent(event, zs) ==
    IF IsGeofenced(event)
       /\ ContainingZones(zs, event.parameters.lat, event.parameters.lon) # {}
    THEN LET hits == ContainingZones(zs, event.parameters.lat, event.parameters.lon)
             first == CHOOSE i \in hits : \A j \in hits : i <= j
         IN [allow |-> FALSE,
             logged |-> <<LogViolation(UserOf(event), zs[first].zone_id)>>]
    ELSE [allow |-> TRUE, logged |-> <<>>]

\* Proceed telling the renderer to clear a zone whether it is stored or not
ProceedClearsAnyway(event, zs, qs) ==
    IF event.operation = "remove_restricted_zone" /\ event.parameters.kind = "number"
    THEN [zones |-> DeleteZone(zs, event.parameters.value),
          queues |-> Put(qs, ORBIT_DRAWER_QUEUE_NAME,
                         Event(SECURITY_MONITOR_QUEUE_NAME, ORBIT_DRAWER_QUEUE_NAME,
                               "clear_restricted_zone", event.parameters, None, None)),
          logged |-> <<LogLine("INFO", "zone_removed", event.parameters.value)>>]
    ELSE IF event.operation \in {"add_restricted_zone", "remove_restricted_zone"}
            \/ ~Registered(qs, event.destination)
    THEN [zones |-> zs, queues |-> qs, logged |-> <<>>]
    ELSE [zones |-> zs, queues |-> Put(qs, event.destination, event),
          logged |-> <<LogLine("DEBUG", "sent", event.operation)>>]

\* Proceed putting the event in front of what the destination mailbox holds
ProceedPrepend(event, zs, qs) ==
    IF event.operation \in {"add_restricted_zone", "remove_restricted_zone"}
       \/ ~Registered(qs, event.destination)
    THEN [zones |-> zs, queues |-> qs, logged |-> <<>>]
    ELSE [zones |-> zs,
          queues |-> [qs EXCEPT ![event.destination] = <<event>> \o @],
          logged |-> <<LogLine("DEBUG", "sent", event.operation)>>]

\* Proceed forwarding a copy of the event that names the hub as its source
ProceedRestamped(event, zs, qs) ==
    IF event.operation \in {"add_restricted_zone", "remove_restricted_zone"}
       \/ ~Registered(qs, event.destination)
    THEN [zones |-> zs, queues |-> qs, logged |-> <<>>]
    ELSE [zones |-> zs,
          queues |-> Put(qs, event.destination,
                         [event EXCEPT !.source = SECURITY_MONITOR_QUEUE_NAME]),
          logged |-> <<LogLine("DEBUG", "sent", event.operation)>>]

\* SecurityMonitor._proceed: the zones, the mailboxes and the log lines after it
Proceed(event, zs, qs) ==
    IF event.operation = "add_restricted_zone"
    THEN IF event.parameters.kind = "RestrictedZone"
         THEN [zones |-> UpsertZone(zs, event.parameters),
               queues |-> IF Registered(qs, ORBIT_DRAWER_QUEUE_NAME)
                          THEN Put(qs, ORBIT_DRAWER_QUEUE_NAME,
                                   Event(SECURITY_MONITOR_QUEUE_NAME,
                                         ORBIT_DRAWER_QUEUE_NAME,
                                         "draw_restricted_zone",
                                         event.parameters, None, None))
                          ELSE qs,
               logged |-> <<LogLine("INFO", "zone_added", event.parameters.zone_id)>>]
         ELSE [zones |-> zs, queues |-> qs, logged |-> <<>>]
    ELSE IF event.operation = "remove_restricted_zone"
    THEN IF event.parameters.kind = "number" /\ event.parameters.value \in ZoneIds(zs)
         THEN [zones |-> DeleteZone(zs, event.parameters.value),
               queues |-> IF Registered(qs, ORBIT_DRAWER_QUEUE_NAME)
                          THEN Put(qs, ORBIT_DRAWER_QUEUE_NAME,
                                   Event(SECURITY_MONITOR_QUEUE_NAME,
                                         ORBIT_DRAWER_QUEUE_NAME,
                                         "clear_restricted_zone",
                                         event.parameters, None, None))
                          ELSE qs,
               logged |-> <<LogLine("INFO", "zone_removed", event.parameters.value)>>]
         ELSE [zones |-> zs, queues |-> qs, logged |-> <<>>]
    ELSE IF ~Registered(qs, event.destination)
         THEN [zones |-> zs, queues |-> qs,
               logged |-> <<LogLine("ERROR", "no_receiver", event.destination)>>]
         ELSE [zones |-> zs, queues |-> Put(qs, event.destination, event),
               logged |-> <<LogLine("DEBUG", "sent", event.operation)>>]

\* _proceed raises: `zone_id in self._restricted_zones` hashes zone_id, and a
\* list is not hashable (TypeError)
ProceedRaises(event) ==
    /\ event.operation = "remove_restricted_zone"
    /\ event.parameters.kind = "list"

\* HandleEvent routing whatever the verdict is
HandleEventNoCheck(event, zs, qs) ==
    LET verdict == CheckEvent(event, zs)
        out == Proceed(event, zs, qs)
    IN [zones |-> out.zones, queues |-> out.queues,
        logged |-> <<LogLine("DEBUG", "received", event.operation)>>
                   \o verdict.logged \o out.logged]

\* SecurityMonitor._check_events_q, the body of the loop for an Event:
\* validate, and route only when validation allows
HandleEvent(event, zs, qs) ==
    LET verdict == CheckEvent(event, zs)
        received == <<LogLine("DEBUG", "received", event.operation)>>
    IN IF verdict.allow
       THEN LET out == Proceed(event, zs, qs)
            IN [zones |-> out.zones, queues |-> out.queues,
                logged |-> received \o out.logged]
       ELSE [zones |-> zs, queues |-> qs, logged |-> received \o verdict.logged]

\* SecurityMonitor._check_events_q: one iteration of the loop that takes an
\* object from the hub's mailbox (the Empty branch changes nothing)
SecurityMonitorCheckEventsQ ==
    /\ hub_up
    /\ Registered(queues, SECURITY_MONITOR_QUEUE_NAME)
    /\ queues[SECURITY_MONITOR_QUEUE_NAME] # <<>>
    /\ LET event == Head(queues[SECURITY_MONITOR_QUEUE_NAME])
           rest == [queues EXCEPT ![SECURITY_MONITOR_QUEUE_NAME] = Tail(@)]
       IN IF ~IsEvent(event)
          THEN /\ queues' = rest
               /\ UNCHANGED <<restricted_zones, hub_event, hub_logged, hub_up>>
          ELSE LET out == HandleEvent(event, restricted_zones, rest)
               IN /\ hub_event' = event
                  /\ restricted_zones' = out.zones
                  /\ queues' = out.queues
                  /\ hub_logged' = out.logged
                  /\ hub_up' = ~(CheckEvent(event, restricted_zones).allow
                                 /\ ProceedRaises(event))
    /\ UNCHANGED <<gate_vars, db_vars, sent, now, security_policies, optics_vars>>

---------------------------------------------------------------------------
(* The environment of the hub: the components that put objects into its    *)
(* mailbox (command gate, scheduler, interceptor, system start-up)         *)

\* zone 1001 of run_system.py:131-139
Z1001 == RestrictedZone(1001, -40, -30, -10, -10, "", 2)

\* a zone that overlaps zone 1001
Z2002 == RestrictedZone(2002, -30, -25, 0, 0, "", 1)

\* zone 1001 again, with another rectangle
Z1001Moved == RestrictedZone(1001, 10, 10, 20, 20, "moved", 3)

UserExtra == [user |-> "alice", role |-> 3]

RenderEvent(lat, lon, extra) ==
    Event(OPTICS_CONTROL_QUEUE_NAME, ORBIT_DRAWER_QUEUE_NAME, "update_photo_map",
          Point(lat, lon), extra, None)

HubInputs ==
    { RenderEvent(-25, -20, UserExtra),   \* inside Z1001 and Z2002
      RenderEvent(-40, -30, None),        \* a corner of Z1001
      RenderEvent(0, 0, None),            \* a corner of Z2002
      Event("client_alice", "security_monitor", "add_restricted_zone", Z1001, UserExtra, None),
      Event("system_init", "security_monitor", "add_restricted_zone", Z2002, None, None),
      Event("client_alice", "security_monitor", "remove_restricted_zone",
            Number(1001), UserExtra, None),
      Event("client_alice", OPTICS_CONTROL_QUEUE_NAME, "request_photo", None,
            [user |-> "alice", role |-> 3, priority |-> 1], None),
      Event("client_alice", "security_monitor", "remove_restricted_zone",
            [kind |-> "list", items |-> <<1001>>], UserExtra, None),
      Event("system_init", OPTICS_CONTROL_QUEUE_NAME, "add_restricted_zone",
            Z1001Moved, None, None),
      Event(CAMERA_QUEUE_NAME, "security_monitor", "add_restricted_zone",
            Z2002, [user |-> "bob", role |-> 1], None),   \* role 1: a client
      Event(OPTICS_CONTROL_QUEUE_NAME, ORBIT_DRAWER_QUEUE_NAME, "update_photo_map",
            None, UserExtra, None),        \* a render message without a point
      Event("client_alice", ORBIT_DRAWER_QUEUE_NAME, "add_restricted_zone",
            Number(1001), UserExtra, None),   \* an add whose payload is no zone
      Event("client_alice", ORBIT_DRAWER_QUEUE_NAME, "remove_restricted_zone",
            Number(2002), UserExtra, None),
      Event(OPTICS_CONTROL_QUEUE_NAME, "unknown", "optics_status", None, None, None),
      Event("security_interceptor", SECURITY_MONITOR_QUEUE_NAME, "camera_update",
            Point(-25, -20), [intercepted |-> TRUE], None),
      Event(OPTICS_CONTROL_QUEUE_NAME, CAMERA_QUEUE_NAME, "update_photo_map",
            Point(-25, -20), None, None),
      [type |-> "object"] }

\* the n-th message put into the hub's mailbox, marked with n in its
\* signature: a rendered point inside zone 1001 and one outside every zone, a
\* capture request for the camera, and the command that adds zone 1001
OrderedInputs(n) ==
    { Event(OPTICS_CONTROL_QUEUE_NAME, ORBIT_DRAWER_QUEUE_NAME, "update_photo_map",
            Point(-25, -20), None, [prefix |-> "photo", user |-> "alice", n |-> n]),
      Event(OPTICS_CONTROL_QUEUE_NAME, ORBIT_DRAWER_QUEUE_NAME, "update_photo_map",
            Point(50, 50), None, [prefix |-> "photo", user |-> "alice", n |-> n]),
      Event(OPTICS_CONTROL_QUEUE_NAME, CAMERA_QUEUE_NAME, "request_photo", None,
            [priority |-> 1], [prefix |-> "photo", user |-> "alice", n |-> n]),
      Event("client_alice", "security_monitor", "add_restricted_zone", Z1001, UserExtra,
            [prefix |-> "addzone", user |-> "alice", n |-> n]) }

\* producers put marked messages into the hub's mailbox, in any interleaving
SendOrdered ==
    /\ sent < MaxSent
    /\ Registered(queues, SECURITY_MONITOR_QUEUE_NAME)
    /\ \E m \in OrderedInputs(sent + 1) : queues' = Put(queues, SECURITY_MONITOR_QUEUE_NAME, m)
    /\ sent' = sent + 1
    /\ UNCHANGED <<gate_vars, db_vars, now, hub_vars, optics_vars>>

\* a producer puts one object into the hub's mailbox
SendToHub ==
    /\ sent < MaxSent
    /\ Registered(queues, SECURITY_MONITOR_QUEUE_NAME)
    /\ \E m \in HubInputs : queues' = Put(queues, SECURITY_MONITOR_QUEUE_NAME, m)
    /\ sent' = sent + 1
    /\ UNCHANGED <<gate_vars, db_vars, now, hub_vars, optics_vars>>

---------------------------------------------------------------------------
(* OpticsControl: the priority capture scheduler *)

\* ControlEvent(operation)
ControlEvent(op) == [type |-> "ControlEvent", operation |-> op]

\* isinstance(x, ControlEvent)
IsControlEvent(x) == x.type = "ControlEvent"

\* the truth value of a Python object, as `if x:` takes it
Truthy(x) ==
    CASE x.kind = "None" -> FALSE
      [] x.kind = "number" -> x.value # 0
      [] OTHER -> TRUE

\* OpticsControl.__init__: _photo_interval = 2.0
DefaultPhotoInterval == 20

\* the bounds of _handle_set_interval: 0.5 and 30.0
MinPhotoInterval == 5
MaxPhotoInterval == 300

\* priority of a request: extra_parameters['priority'] when present, else 1
PriorityOf(event) ==
    IF "priority" \in DOMAIN event.extra_parameters
    THEN event.extra_parameters.priority
    ELSE 1

\* one insertion of a stable sort by descending priority: the request goes
\* behind every request whose priority is not lower
RECURSIVE InsertByPriority(_, _)
InsertByPriority(s, r) ==
    IF s = <<>> THEN <<r>>
    ELSE IF Head(s).priority >= r.priority
         THEN <<Head(s)>> \o InsertByPriority(Tail(s), r)
         ELSE <<r>> \o s

\* the same insertion placing the request in front of its equals
RECURSIVE InsertBeforeEquals(_, _)
InsertBeforeEquals(s, r) ==
    IF s = <<>> THEN <<r>>
    ELSE IF Head(s).priority > r.priority
         THEN <<Head(s)>> \o InsertBeforeEquals(Tail(s), r)
         ELSE <<r>> \o s

\* a sort by descending priority that is not stable
RECURSIVE SortByPriorityUnstable(_)
SortByPriorityUnstable(s) ==
    IF s = <<>> THEN <<>>
    ELSE InsertBeforeEquals(SortByPriorityUnstable(SubSeq(s, 1, Len(s) - 1)), s[Len(s)])

\* _photo_queue.sort(key=lambda x: x['priority'], reverse=True): list.sort is
\* stable, also with reverse=True
RECURSIVE SortByPriority(_)
SortByPriority(s) ==
    IF s = <<>> THEN <<>>
    ELSE InsertByPriority(SortByPriority(SubSeq(s, 1, Len(s) - 1)), s[Len(s)])

\* OpticsControl._handle_photo_request: the pending collection after it
HandlePhotoRequest(event, pq) ==
    SortByPriority(Append(pq,
        [source |-> event.source,
         timestamp |-> IF Truthy(event.parameters) THEN event.parameters ELSE None,
         priority |-> PriorityOf(event),
         signature |-> event.signature]))

\* what a data handler leaves: the scheduler's fields, the mailboxes, the
\* lines logged, and whether it raised
Handled(pq, interval, qs, logged, raised) ==
    [photo_queue |-> pq, photo_interval |-> interval, queues |-> qs,
     logged |-> logged, raised |-> raised]

\* _handle_post_photo putting the point straight into the renderer's mailbox
HandlePostPhotoDirect(event, pq, interval, qs) ==
    IF ~Truthy(event.parameters)
    THEN Handled(pq, interval, qs, <<>>, FALSE)
    ELSE IF event.parameters.kind # "tuple" \/ ~Registered(qs, ORBIT_DRAWER_QUEUE_NAME)
    THEN Handled(pq, interval, qs, <<>>, TRUE)
    ELSE Handled(pq, interval,
                 Put(qs, ORBIT_DRAWER_QUEUE_NAME,
                     Event(OPTICS_CONTROL_QUEUE_NAME, ORBIT_DRAWER_QUEUE_NAME,
                           "update_photo_map",
                           Point(event.parameters.lat, event.parameters.lon),
                           event.extra_parameters, event.signature)),
                 <<LogLine("DEBUG", "photo_sent", event.parameters)>>, FALSE)

\* OpticsControl._handle_post_photo
HandlePostPhoto(event, pq, interval, qs) ==
    IF ~Truthy(event.parameters)
    THEN Handled(pq, interval, qs, <<>>, FALSE)
    ELSE IF event.parameters.kind # "tuple" \/ ~Registered(qs, SECURITY_MONITOR_QUEUE_NAME)
    THEN Handled(pq, interval, qs, <<>>, TRUE)
    ELSE Handled(pq, interval,
                 Put(qs, SECURITY_MONITOR_QUEUE_NAME,
                     Event(OPTICS_CONTROL_QUEUE_NAME, ORBIT_DRAWER_QUEUE_NAME,
                           "update_photo_map",
                           Point(event.parameters.lat, event.parameters.lon),
                           event.extra_parameters, event.signature)),
                 <<LogLine("DEBUG", "photo_sent", event.parameters)>>, FALSE)

\* OpticsControl._handle_set_interval; float(x) keeps the value of a number
HandleSetInterval(event, pq, interval, qs) ==
    IF ~(Truthy(event.parameters) /\ event.parameters.kind = "number")
    THEN Handled(pq, interval, qs, <<>>, FALSE)
    ELSE IF MinPhotoInterval <= event.parameters.value
            /\ event.parameters.value <= MaxPhotoInterval
         THEN Handled(pq, event.parameters.value, qs,
                      <<LogLine("INFO", "interval_changed", event.parameters.value)>>, FALSE)
         ELSE Handled(pq, interval, qs,
                      <<LogLine("ERROR", "bad_interval", event.parameters.value)>>, FALSE)

\* the status_event of _handle_get_status
StatusEvent(event, pq, interval) ==
    Event(OPTICS_CONTROL_QUEUE_NAME, IF event.source # "" THEN event.source ELSE "unknown",
          "optics_status",
          [kind |-> "dict", queue_size |-> Len(pq), is_busy |-> is_busy,
           photo_interval |-> interval, last_photo_time |-> last_photo_time],
          None,
          [prefix |-> "status", user |-> OPTICS_CONTROL_QUEUE_NAME, n |-> 0])

\* _handle_get_status putting the reply twice
HandleGetStatusTwice(event, pq, interval, qs) ==
    IF event.source # "" /\ Registered(qs, event.source)
    THEN Handled(pq, interval,
                 Put(Put(qs, event.source, StatusEvent(event, pq, interval)),
                     event.source, StatusEvent(event, pq, interval)),
                 <<LogLine("DEBUG", "status_sent", event.source)>>, FALSE)
    ELSE Handled(pq, interval, qs, <<>>, FALSE)

\* OpticsControl._handle_get_status: the reply goes to the queue registered
\* under event.source, if the source is not empty and there is such a queue
HandleGetStatus(event, pq, interval, qs) ==
    IF event.source # "" /\ Registered(qs, event.source)
    THEN Handled(pq, interval,
                 Put(qs, event.source, StatusEvent(event, pq, interval)),
                 <<LogLine("DEBUG", "status_sent", event.source)>>, FALSE)
    ELSE Handled(pq, interval, qs, <<>>, FALSE)

\* a match whose default case raises
HandleOpticsEventStrict(event, pq, interval, qs) ==
    CASE event.operation = "request_photo" ->
            Handled(HandlePhotoRequest(event, pq), interval, qs,
                    <<LogLine("INFO", "photo_requested", event.source),
                      LogLine("DEBUG", "queued", Len(pq) + 1)>>, FALSE)
      [] event.operation = "post_photo" -> HandlePostPhoto(event, pq, interval, qs)
      [] event.operation = "set_photo_interval" -> HandleSetInterval(event, pq, interval, qs)
      [] event.operation = "get_status" -> HandleGetStatus(event, pq, interval, qs)
      [] OTHER -> Handled(pq, interval, qs, <<>>, TRUE)

\* OpticsControl._check_events_q: the match on event.operation
HandleOpticsEvent(event, pq, interval, qs) ==
    CASE event.operation = "request_photo" ->
            Handled(HandlePhotoRequest(event, pq), interval, qs,
                    <<LogLine("INFO", "photo_requested", event.source),
                      LogLine("DEBUG", "queued", Len(pq) + 1)>>, FALSE)
      [] event.operation = "post_photo" -> HandlePostPhoto(event, pq, interval, qs)
      [] event.operation = "set_photo_interval" -> HandleSetInterval(event, pq, interval, qs)
      [] event.operation = "get_status" -> HandleGetStatus(event, pq, interval, qs)
      [] OTHER -> Handled(pq, interval, qs,
                          <<LogLine("DEBUG", "unknown_operation", event.operation)>>, FALSE)

\* OpticsControl.run, lines 92-95: the time the loop starts becomes the last
\* dispatch time
OpticsControlRunStart ==
    /\ optics_pc = "start"
    /\ last_photo_time' = now
    /\ optics_pc' = "loop"
    /\ optics_logged' = <<LogLine("INFO", "active", None)>>
    /\ UNCHANGED <<gate_vars, db_vars, queues, sent, now, hub_vars, optics_control_q, photo_queue,
                   photo_interval, is_busy, optics_quit, optics_event>>

\* a loop that starts the next tick whatever the quit flag says
OpticsControlRunLoopIgnoresQuit ==
    /\ optics_pc = "loop"
    /\ optics_pc' = "events"
    /\ UNCHANGED <<gate_vars, db_vars, queues, sent, now, hub_vars, optics_control_q, photo_queue,
                   photo_interval, last_photo_time, is_busy, optics_quit,
                   optics_event, optics_logged>>

\* OpticsControl.run, line 97: the loop condition
OpticsControlRunLoop ==
    /\ optics_pc = "loop"
    /\ optics_pc' = IF optics_quit THEN "done" ELSE "events"
    /\ UNCHANGED <<gate_vars, db_vars, queues, sent, now, hub_vars, optics_control_q, photo_queue,
                   photo_interval, last_photo_time, is_busy, optics_quit,
                   optics_event, optics_logged>>

\* OpticsControl._check_events_q: one iteration of its loop. An empty mailbox
\* ends the drain; an exception of a handler ends the tick in run's except.
OpticsControlCheckEventsQ ==
    /\ optics_pc = "events"
    /\ IF queues[OPTICS_CONTROL_QUEUE_NAME] = <<>>
       THEN /\ optics_pc' = "control"
            /\ UNCHANGED <<queues, photo_queue, photo_interval, optics_event, optics_logged>>
       ELSE LET event == Head(queues[OPTICS_CONTROL_QUEUE_NAME])
                rest == [queues EXCEPT ![OPTICS_CONTROL_QUEUE_NAME] = Tail(@)]
            IN /\ optics_event' = event
               /\ IF ~IsEvent(event)
                  THEN /\ queues' = rest
                       /\ optics_logged' = <<>>
                       /\ UNCHANGED <<photo_queue, photo_interval, optics_pc>>
                  ELSE LET out == HandleOpticsEvent(event, photo_queue, photo_interval, rest)
                       IN /\ queues' = out.queues
                          /\ photo_queue' = out.photo_queue
                          /\ photo_interval' = out.photo_interval
                          /\ optics_logged' =
                                IF out.raised
                                THEN out.logged \o <<LogLine("ERROR", "exception", event.operation)>>
                                ELSE out.logged
                          /\ optics_pc' = IF out.raised THEN "loop" ELSE "events"
    /\ UNCHANGED <<gate_vars, db_vars, sent, now, hub_vars, optics_control_q, last_photo_time, is_busy, optics_quit>>

\* a busy flag that clear_queue resets as resume does
BusyAfterClearResets(op, busy) ==
    CASE op = "pause" -> TRUE
      [] op \in {"resume", "clear_queue"} -> FALSE
      [] OTHER -> busy

\* _is_busy after the match of _check_control_q on request.operation
BusyAfter(op, busy) ==
    CASE op = "pause" -> TRUE
      [] op = "resume" -> FALSE
      [] OTHER -> busy

\* OpticsControl._check_control_q: takes at most one object
OpticsControlCheckControlQ ==
    /\ optics_pc = "control"
    /\ optics_pc' = "dispatch"
    /\ IF optics_control_q = <<>>
       THEN UNCHANGED <<optics_control_q, photo_queue, is_busy, optics_quit,
                        optics_event, optics_logged>>
       ELSE LET request == Head(optics_control_q)
                op == IF IsControlEvent(request) THEN request.operation ELSE "none"
            IN /\ optics_control_q' = Tail(optics_control_q)
               /\ optics_event' = request
               /\ optics_quit' = IF op = "stop" THEN TRUE ELSE optics_quit
               /\ is_busy' = BusyAfter(op, is_busy)
               /\ photo_queue' = IF op = "clear_queue" THEN <<>> ELSE photo_queue
               /\ optics_logged' =
                    <<LogLine("DEBUG", "control", request)>>
                    \o (IF op \in {"stop", "pause", "resume", "clear_queue"}
                        THEN <<LogLine("INFO", op, None)>> ELSE <<>>)
    /\ UNCHANGED <<gate_vars, db_vars, queues, sent, now, hub_vars, photo_interval, last_photo_time>>

\* the dispatch condition without the busy flag
DispatchDueWhilePaused(t) ==
    /\ photo_queue # <<>>
    /\ t - last_photo_time >= photo_interval

\* the condition without the comparison with the interval
DispatchDueNoInterval(t) == ~is_busy /\ photo_queue # <<>>

\* the condition of OpticsControl.run, lines 104-106, at clock reading t
DispatchDue(t) ==
    /\ ~is_busy
    /\ photo_queue # <<>>
    /\ t - last_photo_time >= photo_interval

\* OpticsControl.run, lines 103-110: decide whether to dispatch in this tick
OpticsControlRunDispatch ==
    /\ optics_pc = "dispatch"
    /\ optics_pc' = IF DispatchDue(now) THEN "process" ELSE "loop"
    /\ UNCHANGED <<gate_vars, db_vars, queues, sent, now, hub_vars, optics_control_q, photo_queue,
                   photo_interval, last_photo_time, is_busy, optics_quit,
                   optics_event, optics_logged>>

\* pop() instead of pop(0): the request at the tail
PopLast(pq) == [request |-> pq[Len(pq)], rest |-> SubSeq(pq, 1, Len(pq) - 1)]

\* _photo_queue.pop(0)
PopFirst(pq) == [request |-> Head(pq), rest |-> Tail(pq)]

\* a capture request for the camera without the signature of the request
RequestPhotoEventUnsigned(request) ==
    Event(OPTICS_CONTROL_QUEUE_NAME, CAMERA_QUEUE_NAME, "request_photo",
          request.timestamp, [priority |-> request.priority], None)

\* the Event built by _process_next_photo_request for a pending request
RequestPhotoEvent(request) ==
    Event(OPTICS_CONTROL_QUEUE_NAME, CAMERA_QUEUE_NAME, "request_photo",
          request.timestamp, [priority |-> request.priority], request.signature)

\* OpticsControl._process_next_photo_request
OpticsControlProcessNextPhotoRequest ==
    /\ optics_pc = "process"
    /\ optics_pc' = "loop"
    /\ IF photo_queue = <<>>
       THEN UNCHANGED <<queues, photo_queue, last_photo_time, optics_logged>>
       ELSE LET popped == PopFirst(photo_queue)
                request == popped.request
            IN /\ photo_queue' = popped.rest
               /\ last_photo_time' = now
               /\ IF Registered(queues, SECURITY_MONITOR_QUEUE_NAME)
                  THEN /\ queues' = Put(queues, SECURITY_MONITOR_QUEUE_NAME,
                                        RequestPhotoEvent(request))
                       /\ optics_logged' =
                            <<LogLine("INFO", "processing", request.priority),
                              LogLine("DEBUG", "request_sent", None)>>
                  ELSE /\ queues' = queues
                       /\ optics_logged' =
                            <<LogLine("INFO", "processing", request.priority),
                              LogLine("ERROR", "exception", "request_photo")>>
    /\ UNCHANGED <<gate_vars, db_vars, sent, now, hub_vars, optics_control_q, photo_interval, is_busy,
                   optics_quit, optics_event>>

\* time passes
ClockAdvance ==
    /\ now < MaxTime
    /\ now' = now + ClockStep
    /\ UNCHANGED <<gate_vars, db_vars, queues, sent, hub_vars, optics_vars>>

---------------------------------------------------------------------------
(* The environment of the scheduler *)

\* signatures are built from a running number, as the command gate does
Signature(prefix, n) == [prefix |-> prefix, user |-> "alice", n |-> n]

\* a capture request as the hub forwards it to the scheduler
PhotoRequest(extra, n) ==
    Event("client_alice", OPTICS_CONTROL_QUEUE_NAME, "request_photo", None,
          extra, Signature("photo", n))

SetInterval(v) ==
    Event("client_alice", OPTICS_CONTROL_QUEUE_NAME, "set_photo_interval",
          Number(v), None, None)

\* requests without a priority, with priority 1 and with priority 5, and the
\* shortest interval
DispatchInputs(n) ==
    { PhotoRequest(None, n),
      PhotoRequest([user |-> "alice", role |-> 1, priority |-> 1], n),
      PhotoRequest([priority |-> 5], n),
      SetInterval(MinPhotoInterval) }

\* -1.0, 0, 0.4, 0.5, 5.0, 30.0 and 30.1 seconds
IntervalValues == {-10, 0, 4, 5, 50, 300, 301}

IntervalInputs(n) ==
    {SetInterval(v) : v \in IntervalValues} \cup {PhotoRequest([priority |-> 5], n)}

ControlInputs ==
    {ControlEvent("stop"), ControlEvent("pause"), ControlEvent("resume"),
     ControlEvent("clear_queue")}

\* a producer puts one of the given objects into the scheduler's data mailbox
SendToOptics(inputs) ==
    /\ sent < MaxSent
    /\ queues' = Put(queues, OPTICS_CONTROL_QUEUE_NAME, inputs)
    /\ sent' = sent + 1
    /\ UNCHANGED <<gate_vars, db_vars, now, hub_vars, optics_vars>>

SendDispatchInput == \E m \in DispatchInputs(sent + 1) : SendToOptics(m)

SendIntervalInput == \E m \in IntervalInputs(sent + 1) : SendToOptics(m)

\* a controller puts one of the given objects into the control mailbox
SendControl(inputs) ==
    /\ sent < MaxSent
    /\ \E c \in inputs : optics_control_q' = Append(optics_control_q, c)
    /\ sent' = sent + 1
    /\ UNCHANGED <<gate_vars, db_vars, queues, now, hub_vars, photo_queue, photo_interval, last_photo_time,
                   is_busy, optics_quit, optics_pc, optics_event, optics_logged>>

\* a status query as the hub forwards it: the source is the requester
GetStatus(source) ==
    Event(source, OPTICS_CONTROL_QUEUE_NAME, "get_status", None, None, None)

\* status queries of a component with a mailbox, of the scheduler itself, of
\* a client (which has no mailbox) and without a source; a capture request and
\* an interval setting, so that the status varies
StatusInputs(n) ==
    { GetStatus(CAMERA_QUEUE_NAME), GetStatus(OPTICS_CONTROL_QUEUE_NAME),
      GetStatus("client_alice"), GetStatus(""),
      PhotoRequest([priority |-> 5], n), SetInterval(MinPhotoInterval) }

SendStatusInput == \E m \in StatusInputs(sent + 1) : SendToOptics(m)

SendAnyControl == SendControl(ControlInputs)

\* a capture request that carries a timestamp
TimedRequest(timestamp, extra, n) ==
    Event("client_alice", OPTICS_CONTROL_QUEUE_NAME, "request_photo", timestamp,
          extra, Signature("photo", n))

\* the camera's finished photo
PostPhoto(parameters, extra, signature) ==
    Event(CAMERA_QUEUE_NAME, OPTICS_CONTROL_QUEUE_NAME, "post_photo", parameters,
          extra, signature)

\* the data messages of the scheduler: capture requests with a timestamp and
\* priority 5, with timestamp 0 and no priority; finished photos with a point,
\* extra parameters and a signature, and without a payload; and a message of
\* an operation the scheduler does not know
DataInputs(n) ==
    { TimedRequest(Number(17), [priority |-> 5], n),
      TimedRequest(Number(0), None, n),
      PostPhoto(Point(-25, -20), [user |-> "alice", priority |-> 5], Signature("photo", n)),
      PostPhoto(None, None, None),
      Event(CAMERA_QUEUE_NAME, OPTICS_CONTROL_QUEUE_NAME, "telemetry",
            Number(n), None, None) }

SendDataInput == \E m \in DataInputs(sent + 1) : SendToOptics(m)

\* what a producer that never stops sends: an event of an operation the
\* scheduler does not know, and a post_photo whose handler raises
FloodInputs ==
    { Event(CAMERA_QUEUE_NAME, OPTICS_CONTROL_QUEUE_NAME, "telemetry", None, None, None),
      Event(CAMERA_QUEUE_NAME, OPTICS_CONTROL_QUEUE_NAME, "post_photo", Number(1), None, None) }

\* a producer that never stops refills the scheduler's data mailbox
SendFlood ==
    /\ Len(queues[OPTICS_CONTROL_QUEUE_NAME]) < MaxBacklog
    /\ \E m \in FloodInputs : queues' = Put(queues, OPTICS_CONTROL_QUEUE_NAME, m)
    /\ UNCHANGED <<sent, gate_vars, db_vars, now, hub_vars, optics_vars>>

\* a capture request is put into the scheduler's data mailbox
SendPhotoRequest ==
    \E m \in {PhotoRequest([priority |-> 5], sent + 1)} : SendToOptics(m)

SendPause == SendControl({ControlEvent("pause")})

SendPauseResume == SendControl({ControlEvent("pause"), ControlEvent("resume")})

OpticsControlRun ==
    \/ OpticsControlRunStart
    \/ OpticsControlRunLoop
    \/ OpticsControlCheckEventsQ
    \/ OpticsControlCheckControlQ
    \/ OpticsControlRunDispatch
    \/ OpticsControlProcessNextPhotoRequest

---------------------------------------------------------------------------
(* CommandInterpreter: the command gate *)

ROLE_CLIENT == 1
ROLE_VIP == 2
ROLE_ADMIN == 3

\* the bounds of _execute_orbit_command on the altitude
MinAltitude == 160000
MaxAltitude == 2000000

\* PERMISSIONS: command name -> roles that may execute it
PERMISSIONS ==
    [name \in {"MAKE PHOTO", "ORBIT", "ADD ZONE", "REMOVE ZONE"} |->
        CASE name = "MAKE PHOTO" -> {ROLE_CLIENT, ROLE_VIP, ROLE_ADMIN}
          [] name = "ORBIT" -> {ROLE_VIP, ROLE_ADMIN}
          [] name = "ADD ZONE" -> {ROLE_ADMIN}
          [] name = "REMOVE ZONE" -> {ROLE_ADMIN}]

\* Command(name, args)
Command(name, args) == [name |-> name, args |-> args]

\* a permission check that only asks whether the command is in the table
CheckPermissionAnyRole(role, command_name) == command_name \in DOMAIN PERMISSIONS

\* check_permission: role in PERMISSIONS.get(command_name, set())
CheckPermission(role, command_name) ==
    /\ command_name \in DOMAIN PERMISSIONS
    /\ role \in PERMISSIONS[command_name]

Min(a, b) == IF a <= b THEN a ELSE b
Max(a, b) == IF a >= b THEN a ELSE b

\* what an _execute_*_command leaves: the mailboxes, the counter, and whether
\* it raised
Executed(qs, counter, raised) == [queues |-> qs, command_counter |-> counter, raised |-> raised]

\* the put without the increment of the counter
EmitUncounted(qs, counter, event) ==
    IF Registered(qs, SECURITY_MONITOR_QUEUE_NAME)
    THEN Executed(Put(qs, SECURITY_MONITOR_QUEUE_NAME, event), counter, FALSE)
    ELSE Executed(qs, counter, FALSE)

\* the tail of every _execute_*_command: put the event into the mailbox
\* registered as 'security', if there is one, and count it
Emit(qs, counter, event) ==
    IF Registered(qs, SECURITY_MONITOR_QUEUE_NAME)
    THEN Executed(Put(qs, SECURITY_MONITOR_QUEUE_NAME, event), counter + 1, FALSE)
    ELSE Executed(qs, counter, FALSE)

\* _execute_orbit_command without the test of the altitude
ExecuteOrbitCommandAnyAltitude(args, role, counter, qs) ==
    Emit(qs, counter,
         Event("client_alice", "orbit_control", "change_orbit",
               [kind |-> "orbit", altitude |-> args[1], raan |-> args[2],
                inclination |-> args[3]],
               None, Signature("orbit", counter)))

\* CommandInterpreter._execute_orbit_command
ExecuteOrbitCommand(args, role, counter, qs) ==
    IF ~(MinAltitude <= args[1] /\ args[1] <= MaxAltitude)
    THEN Executed(qs, counter, TRUE)
    ELSE Emit(qs, counter,
              Event("client_alice", "orbit_control", "change_orbit",
                    [kind |-> "orbit", altitude |-> args[1], raan |-> args[2],
                     inclination |-> args[3]],
                    None, Signature("orbit", counter)))

\* CommandInterpreter._execute_photo_command
ExecutePhotoCommand(role, counter, qs) ==
    Emit(qs, counter,
         Event("client_alice", "optics_control", "request_photo", None,
               [user |-> "alice", role |-> role, priority |-> 1],
               Signature("photo", counter)))

\* CommandInterpreter._execute_add_zone_command
ExecuteAddZoneCommand(args, role, counter, qs) ==
    Emit(qs, counter,
         Event("client_alice", "security_monitor", "add_restricted_zone",
               RestrictedZone(args[1], Min(args[2], args[4]), Min(args[3], args[5]),
                              Max(args[2], args[4]), Max(args[3], args[5]),
                              "added by alice", 3),
               [user |-> "alice", role |-> role],
               Signature("addzone", counter)))

\* CommandInterpreter._execute_remove_zone_command
ExecuteRemoveZoneCommand(args, role, counter, qs) ==
    Emit(qs, counter,
         Event("client_alice", "security_monitor", "remove_restricted_zone",
               Number(args[1]),
               [user |-> "alice", role |-> role],
               Signature("removezone", counter)))

\* CommandInterpreter._execute_single_command: the mailboxes, the counter and
\* the lines logged after it
ExecuteSingleCommand(cmd, role, counter, qs) ==
    IF ~CheckPermission(role, cmd.name)
    THEN [queues |-> qs, command_counter |-> counter,
          logged |-> <<LogLine("INFO", "command", cmd.name),
                       LogLine("WARNING", "denied", cmd.name)>>]
    ELSE LET out == CASE cmd.name = "ORBIT" -> ExecuteOrbitCommand(cmd.args, role, counter, qs)
                      [] cmd.name = "MAKE PHOTO" -> ExecutePhotoCommand(role, counter, qs)
                      [] cmd.name = "ADD ZONE" -> ExecuteAddZoneCommand(cmd.args, role, counter, qs)
                      [] cmd.name = "REMOVE ZONE" ->
                            ExecuteRemoveZoneCommand(cmd.args, role, counter, qs)
                      [] OTHER -> Executed(qs, counter, TRUE)
         IN [queues |-> out.queues, command_counter |-> out.command_counter,
             logged |-> <<LogLine("INFO", "command", cmd.name),
                          IF out.raised
                          THEN LogLine("ERROR", "execution_error", cmd.name)
                          ELSE LogLine("INFO", "success", cmd.name)>>]

\* the commands of the programs: ORBIT below, on and above the bounds of the
\* altitude, the other three commands, and a name that is not in the table
GateCommands ==
    { Command("ORBIT", <<MinAltitude - 1, 0, 0>>),
      Command("ORBIT", <<MinAltitude, 0, 0>>),
      Command("ORBIT", <<MaxAltitude, 0, 0>>),
      Command("ORBIT", <<MaxAltitude + 1, 0, 0>>),
      Command("MAKE PHOTO", <<>>),
      Command("ADD ZONE", <<1001, -10, -10, -40, -30>>),
      Command("REMOVE ZONE", <<1001>>),
      Command("SELF DESTRUCT", <<>>) }

\* CommandInterpreter.execute_program: one iteration of its loop
CommandInterpreterExecuteSingleCommand ==
    /\ gate_seq < MaxCommands
    /\ \E cmd \in GateCommands :
         LET out == ExecuteSingleCommand(cmd, gate_role, command_counter, queues)
         IN /\ gate_command' = cmd
            /\ queues' = out.queues
            /\ command_counter' = out.command_counter
            /\ gate_logged' = out.logged
    /\ gate_seq' = gate_seq + 1
    /\ UNCHANGED <<gate_role, sent, now, hub_vars, optics_vars, db_vars>>

---------------------------------------------------------------------------
(* Database: the append-only log *)

\* struct.Struct("<I").size and struct.Struct("<Idd").size
RECORD_HEADER_SIZE == 4
RECORD_BODY_SIZE == 20

\* struct.pack("<I", n): four bytes, least significant first
PackUInt32(n) ==
    <<n % 256, (n \div 256) % 256, (n \div 65536) % 256, (n \div 16777216) % 256>>

\* struct.unpack("<I", b)
UnpackUInt32(b) == b[1] + 256 * b[2] + 65536 * b[3] + 16777216 * b[4]

RECURSIVE Log2Floor(_)
Log2Floor(n) == IF n < 2 THEN 0 ELSE 1 + Log2Floor(n \div 2)

\* struct.pack("<d", v) for an integral v with |v| < 2^20: the IEEE 754
\* binary64 bytes, least significant first
PackDouble(v) ==
    IF v = 0 THEN <<0, 0, 0, 0, 0, 0, 0, 0>>
    ELSE LET a == IF v < 0 THEN -v ELSE v
             e == Log2Floor(a)
             m20 == (a - 2^e) * 2^(20 - e)
             hi == (IF v < 0 THEN 32768 ELSE 0) + (e + 1023) * 16 + (m20 \div 65536)
             lo == m20 % 65536
         IN <<0, 0, 0, 0, lo % 256, lo \div 256, hi % 256, hi \div 256>>

\* str(n).encode("utf-8")
RECURSIVE DecimalDigits(_)
DecimalDigits(n) ==
    IF n < 10 THEN <<48 + n>> ELSE DecimalDigits(n \div 10) \o <<48 + (n % 10)>>

\* f"photo{i}".encode("utf-8")
PhotoName(i) == <<112, 104, 111, 116, 111>> \o DecimalDigits(i)

\* f.read(n) at position pos: at most n bytes, fewer at the end of the file
ReadBytes(bytes, pos, n) == SubSeq(bytes, pos + 1, Min(pos + n, Len(bytes)))

\* the loop of _load_last_index from position pos with last_i as it stands:
\* the value of last_i when the loop ends, or that struct.unpack raised
RECURSIVE ScanRecords(_, _, _)
ScanRecords(bytes, pos, last_i) ==
    LET header == ReadBytes(bytes, pos, RECORD_HEADER_SIZE)
    IN IF header = <<>> THEN [last_i |-> last_i, raised |-> FALSE]
       ELSE IF Len(header) < RECORD_HEADER_SIZE THEN [last_i |-> last_i, raised |-> TRUE]
       ELSE LET name_len == UnpackUInt32(header)
                at == Min(pos + RECORD_HEADER_SIZE + name_len, Len(bytes))
                body == ReadBytes(bytes, at, RECORD_BODY_SIZE)
            IN IF body = <<>> THEN [last_i |-> last_i, raised |-> FALSE]
               ELSE IF Len(body) < RECORD_BODY_SIZE THEN [last_i |-> last_i, raised |-> TRUE]
               ELSE ScanRecords(bytes, at + RECORD_BODY_SIZE,
                                UnpackUInt32(SubSeq(body, 1, 4)))

\* _load_last_index returning last_i itself
LoadLastIndexNoIncrement(file) ==
    IF ~file.exists THEN [value |-> 0, raised |-> FALSE]
    ELSE LET scan == ScanRecords(file.bytes, 0, 0)
         IN [value |-> scan.last_i, raised |-> scan.raised]

\* Database._load_last_index
LoadLastIndex(file) ==
    IF ~file.exists THEN [value |-> 0, raised |-> FALSE]
    ELSE LET scan == ScanRecords(file.bytes, 0, 0)
         IN [value |-> scan.last_i + 1, raised |-> scan.raised]

\* the bytes _write appends: the header, the name and the body of the record
RecordBytes(i, lat, lon) ==
    PackUInt32(Len(PhotoName(i))) \o PhotoName(i)
        \o PackUInt32(i) \o PackDouble(lat) \o PackDouble(lon)

\* Database._write: the file after the record is appended
Write(file, i, lat, lon) ==
    [exists |-> TRUE, bytes |-> file.bytes \o RecordBytes(i, lat, lon)]

\* Database._check_events_q: one iteration of its loop with an object taken.
\* An add_photo event whose parameters are no pair raises in the unpacking;
\* run's except logs it and the object is gone.
DatabaseCheckEventsQ ==
    /\ db_up
    /\ Registered(queues, DATABASE_QUEUE_NAME)
    /\ queues[DATABASE_QUEUE_NAME] # <<>>
    /\ LET event == Head(queues[DATABASE_QUEUE_NAME])
       IN /\ queues' = [queues EXCEPT ![DATABASE_QUEUE_NAME] = Tail(@)]
          /\ IF IsEvent(event) /\ event.operation = "add_photo"
                /\ event.parameters.kind = "tuple"
             THEN /\ db_file' = Write(db_file, db_i, event.parameters.lat, event.parameters.lon)
                  /\ db_i' = db_i + 1
                  /\ db_records' = Append(db_records,
                        [index |-> db_i, latitude |-> event.parameters.lat,
                         longitude |-> event.parameters.lon, run |-> db_restarts,
                         size |-> Len(RecordBytes(db_i, event.parameters.lat,
                                                  event.parameters.lon))])
                  /\ db_torn' = 0
             ELSE UNCHANGED <<db_file, db_i, db_records, db_torn>>
    /\ UNCHANGED <<sent, now, hub_vars, optics_vars, gate_vars, db_up, db_restarts>>

\* the process dies while _write appends the record: open(filename, "ab") has
\* created the file if it was absent, and only the first k bytes of the
\* record have reached it
DatabaseCrashInWrite ==
    /\ db_up
    /\ Registered(queues, DATABASE_QUEUE_NAME)
    /\ queues[DATABASE_QUEUE_NAME] # <<>>
    /\ LET event == Head(queues[DATABASE_QUEUE_NAME])
       IN /\ IsEvent(event) /\ event.operation = "add_photo"
          /\ event.parameters.kind = "tuple"
          /\ LET record == RecordBytes(db_i, event.parameters.lat, event.parameters.lon)
             IN \E k \in 0..(Len(record) - 1) :
                   /\ db_file' = [exists |-> TRUE,
                                  bytes |-> db_file.bytes \o SubSeq(record, 1, k)]
                   /\ db_torn' = IF k = 0 THEN db_torn ELSE k
    /\ queues' = [queues EXCEPT ![DATABASE_QUEUE_NAME] = Tail(@)]
    /\ db_up' = FALSE
    /\ UNCHANGED <<sent, now, hub_vars, optics_vars, gate_vars, db_i, db_records, db_restarts>>

\* the system is started again on the same file: the mailboxes are new and
\* Database.__init__ recovers the index with _load_last_index
DatabaseRestart ==
    /\ db_restarts < MaxRestarts
    /\ db_restarts' = db_restarts + 1
    /\ queues' = [queues EXCEPT ![DATABASE_QUEUE_NAME] = <<>>]
    /\ LET loaded == LoadLastIndex(db_file)
       IN IF loaded.raised
          THEN db_up' = FALSE /\ db_i' = db_i
          ELSE db_up' = TRUE /\ db_i' = loaded.value
    /\ UNCHANGED <<sent, now, hub_vars, optics_vars, gate_vars, db_file, db_records, db_torn>>

\* what arrives in the log's mailbox: records to store, an add_photo without
\* coordinates, an event of another operation, and an object that is no Event
DatabaseInputs ==
    { Event("dispatcher", DATABASE_QUEUE_NAME, "add_photo", Point(lat, lon), None, None) :
          lat \in {-25, 0}, lon \in {-20, 70} }
    \cup { Event("dispatcher", DATABASE_QUEUE_NAME, "add_photo", None, None, None),
           Event("dispatcher", DATABASE_QUEUE_NAME, "get_status", None, None, None),
           [type |-> "object"] }

\* the persistence router puts an object into the log's mailbox
SendToDatabase ==
    /\ sent < MaxSent
    /\ \E x \in DatabaseInputs : queues' = Put(queues, DATABASE_QUEUE_NAME, x)
    /\ sent' = sent + 1
    /\ UNCHANGED <<now, hub_vars, optics_vars, gate_vars, db_vars>>

\* records to store whose bytes, read back at any offset as an unsigned
\* 32-bit number, stay below 2^31: coordinates that are not negative
PhotoRecords ==
    { Event("dispatcher", DATABASE_QUEUE_NAME, "add_photo", Point(lat, lon), None, None) :
          lat \in {0, 25}, lon \in {0} }

\* the persistence router puts a record to store into the log's mailbox
SendPhotoRecord ==
    /\ sent < MaxPhotos
    /\ \E x \in PhotoRecords : queues' = Put(queues, DATABASE_QUEUE_NAME, x)
    /\ sent' = sent + 1
    /\ UNCHANGED <<now, hub_vars, optics_vars, gate_vars, db_vars>>

---------------------------------------------------------------------------
(* Dispatcher and SecurityInterceptor *)

\* an add_photo event with latitude and longitude exchanged
AddPhotoEventSwapped(event) ==
    Event(DISPATCHER_QUEUE_NAME, event.destination, "add_photo",
          Point(event.parameters.lon, event.parameters.lat), None, None)

\* the Event the Dispatcher builds for a req_add_photo_to_data_base event
AddPhotoEvent(event) ==
    Event(DISPATCHER_QUEUE_NAME, event.destination, "add_photo",
          Point(event.parameters.lat, event.parameters.lon), None, None)

\* Dispatcher._check_events_q: one iteration of its loop with an object
\* taken. Parameters that are no pair raise in the unpacking, and so does the
\* put when no queue is registered for the log; the object is gone then.
DispatcherCheckEventsQ ==
    /\ Registered(queues, DISPATCHER_QUEUE_NAME)
    /\ queues[DISPATCHER_QUEUE_NAME] # <<>>
    /\ LET event == Head(queues[DISPATCHER_QUEUE_NAME])
           rest == [queues EXCEPT ![DISPATCHER_QUEUE_NAME] = Tail(@)]
       IN queues' =
            IF /\ IsEvent(event)
               /\ event.operation = "req_add_photo_to_data_base"
               /\ event.parameters.kind = "tuple"
               /\ Registered(rest, DATABASE_QUEUE_NAME)
            THEN Put(rest, DATABASE_QUEUE_NAME, AddPhotoEvent(event))
            ELSE rest
    /\ UNCHANGED <<sent, now, hub_vars, optics_vars, gate_vars, db_vars>>

\* what the hub forwards to the persistence router: the n-th message is a
\* request to store a photo taken at latitude n, or a feedback response
PipelineInputs(n) ==
    { Event(CAMERA_QUEUE_NAME, DISPATCHER_QUEUE_NAME, "req_add_photo_to_data_base",
            Point(n, lon), None, None) : lon \in {0, 70} }
    \cup { Event(CAMERA_QUEUE_NAME, DISPATCHER_QUEUE_NAME, "resp_feedback",
                 None, None, None) }

\* the hub puts a message into the persistence router's mailbox
SendToDispatcher ==
    /\ sent < MaxSent
    /\ \E m \in PipelineInputs(sent + 1) : queues' = Put(queues, DISPATCHER_QUEUE_NAME, m)
    /\ sent' = sent + 1
    /\ UNCHANGED <<now, hub_vars, optics_vars, gate_vars, db_vars>>

\* SecurityInterceptor._check_events_q: one iteration of its loop with an
\* object taken: a copy of a camera update goes to the hub, and the event
\* itself to the queue registered under its destination
SecurityInterceptorCheckEventsQ ==
    /\ Registered(queues, SECURITY_INTERCEPTOR_QUEUE_NAME)
    /\ queues[SECURITY_INTERCEPTOR_QUEUE_NAME] # <<>>
    /\ LET event == Head(queues[SECURITY_INTERCEPTOR_QUEUE_NAME])
           rest == [queues EXCEPT ![SECURITY_INTERCEPTOR_QUEUE_NAME] = Tail(@)]
           copied ==
             IF /\ IsEvent(event)
                /\ event.source = CAMERA_QUEUE_NAME
                /\ event.operation = "camera_update"
                /\ Registered(rest, SECURITY_MONITOR_QUEUE_NAME)
             THEN Put(rest, SECURITY_MONITOR_QUEUE_NAME,
                      Event(SECURITY_INTERCEPTOR_QUEUE_NAME, SECURITY_MONITOR_QUEUE_NAME,
                            "camera_update", event.parameters,
                            [intercepted |-> TRUE], None))
             ELSE rest
       IN queues' =
            IF ~IsEvent(event) THEN rest
            ELSE IF Registered(copied, event.destination)
                 THEN Put(copied, event.destination, event)
                 ELSE copied
    /\ UNCHANGED <<sent, now, hub_vars, optics_vars, gate_vars, db_vars>>

\* what the components of the system send through the hub: a status query of
\* the camera, a record for the persistence router, an event for the
\* interceptor and a capture request
SystemInputs(n) ==
    { GetStatus(CAMERA_QUEUE_NAME),
      Event(CAMERA_QUEUE_NAME, DISPATCHER_QUEUE_NAME, "req_add_photo_to_data_base",
            Point(25, 0), None, None),
      Event("orbit_control", SECURITY_INTERCEPTOR_QUEUE_NAME, "telemetry", None, None, None),
      PhotoRequest([priority |-> 5], n) }

\* a component puts one of these into the hub's mailbox
SendSystemInput ==
    /\ sent < MaxSent
    /\ \E m \in SystemInputs(sent + 1) : queues' = Put(queues, SECURITY_MONITOR_QUEUE_NAME, m)
    /\ sent' = sent + 1
    /\ UNCHANGED <<now, hub_vars, optics_vars, gate_vars, db_vars>>

\* the camera hands an update for the renderer to the interceptor
CameraSendsUpdate ==
    /\ sent < MaxSent
    /\ queues' = Put(queues, SECURITY_INTERCEPTOR_QUEUE_NAME,
                     Event(CAMERA_QUEUE_NAME, ORBIT_DRAWER_QUEUE_NAME, "camera_update",
                           Point(25, 0), None, None))
    /\ sent' = sent + 1
    /\ UNCHANGED <<now, hub_vars, optics_vars, gate_vars, db_vars>>

---------------------------------------------------------------------------
(* Specifications *)

QueueNames ==
    {SECURITY_MONITOR_QUEUE_NAME, ORBIT_DRAWER_QUEUE_NAME,
     OPTICS_CONTROL_QUEUE_NAME, CAMERA_QUEUE_NAME, DATABASE_QUEUE_NAME,
     DISPATCHER_QUEUE_NAME, SECURITY_INTERCEPTOR_QUEUE_NAME}

\* the state after the components are constructed, with the given mailboxes
\* registered, the given policy list installed and a user of the given role
Constructed(names, policies, role) ==
    /\ queues = [n \in names |-> <<>>]
    /\ sent = 0
    /\ now = ClockStep
    /\ restricted_zones = <<>>
    /\ security_policies = policies
    /\ hub_event = None
    /\ hub_logged = <<>>
    /\ hub_up = TRUE
    /\ optics_control_q = <<>>
    /\ photo_queue = <<>>
    /\ photo_interval = DefaultPhotoInterval
    /\ last_photo_time = 0
    /\ is_busy = FALSE
    /\ optics_quit = FALSE
    /\ optics_pc = "start"
    /\ optics_event = None
    /\ optics_logged = <<>>
    /\ gate_role = role
    /\ command_counter = 0
    /\ gate_seq = 0
    /\ gate_command = None
    /\ gate_logged = <<>>
    /\ db_file = [exists |-> FALSE, bytes |-> <<>>]
    /\ db_i = 0
    /\ db_up = TRUE
    /\ db_records = <<>>
    /\ db_restarts = 0
    /\ db_torn = 0

Init == Constructed(QueueNames, DefaultPolicies, ROLE_ADMIN)

\* the hub and the producers of its mailbox
Next == SendToHub \/ SecurityMonitorCheckEventsQ

Spec == Init /\ [][Next]_vars

\* the hub with producers whose messages are marked in the order of their puts
NextOrder == SendOrdered \/ SecurityMonitorCheckEventsQ

SpecOrder == Init /\ [][NextOrder]_vars

\* the scheduler with producers of capture requests and control messages
NextOptics == SendDispatchInput \/ SendAnyControl \/ ClockAdvance \/ OpticsControlRun

SpecOptics == Init /\ [][NextOptics]_vars

\* the scheduler with producers of interval settings
NextInterval == SendIntervalInput \/ SendPause \/ ClockAdvance \/ OpticsControlRun

SpecInterval == Init /\ [][NextInterval]_vars

\* the scheduler with producers of status queries
NextStatus == SendStatusInput \/ SendPauseResume \/ ClockAdvance \/ OpticsControlRun

SpecStatus == Init /\ [][NextStatus]_vars

\* the scheduler with producers of every kind of data message
NextData == SendDataInput \/ ClockAdvance \/ OpticsControlRun

SpecData == Init /\ [][NextData]_vars

\* the scheduler with a producer that never stops, under fair scheduling of
\* the scheduler's run loop
NextFlood ==
    SendFlood \/ SendPhotoRequest \/ SendAnyControl \/ ClockAdvance \/ OpticsControlRun

SpecFlood == Init /\ [][NextFlood]_vars /\ WF_vars(OpticsControlRun)

\* one capture request of priority 1 is put into the scheduler's mailbox
SendLowRequest ==
    /\ sent = 0
    /\ queues' = Put(queues, OPTICS_CONTROL_QUEUE_NAME,
                     PhotoRequest([user |-> "alice", role |-> 1, priority |-> 1], 1))
    /\ sent' = 1
    /\ UNCHANGED <<gate_vars, db_vars, now, hub_vars, optics_vars>>

\* capture requests of priority 5 keep arriving: the next one is put into the
\* scheduler's mailbox when the hub and the camera have taken what was
\* dispatched and at most MaxBacklog requests are pending
SendHighRequest ==
    /\ Len(queues[OPTICS_CONTROL_QUEUE_NAME]) < MaxBacklog
    /\ Len(photo_queue) <= MaxBacklog
    /\ queues[SECURITY_MONITOR_QUEUE_NAME] = <<>>
    /\ queues[CAMERA_QUEUE_NAME] = <<>>
    /\ queues' = Put(queues, OPTICS_CONTROL_QUEUE_NAME, PhotoRequest([priority |-> 5], 0))
    /\ UNCHANGED <<gate_vars, db_vars, sent, now, hub_vars, optics_vars>>

\* the camera takes a message from its mailbox
CameraTakes ==
    /\ queues[CAMERA_QUEUE_NAME] # <<>>
    /\ queues' = [queues EXCEPT ![CAMERA_QUEUE_NAME] = Tail(@)]
    /\ UNCHANGED <<gate_vars, db_vars, sent, now, hub_vars, optics_vars>>

\* time passes beyond MaxTime: the scheduler reads the clock only in
\* differences with the last dispatch time, so the origin of the clock is
\* moved by ClockStep instead of the reading
ClockShift ==
    /\ now = MaxTime
    /\ last_photo_time' = Max(last_photo_time - ClockStep, 0)
    /\ UNCHANGED <<gate_vars, db_vars, queues, sent, now, hub_vars, optics_control_q,
                   photo_queue, photo_interval, is_busy, optics_quit, optics_pc,
                   optics_event, optics_logged>>

\* the scheduler with the hub and the camera behind it and capture requests of
\* a higher priority that keep arriving, under fair scheduling of the
\* scheduler's run loop, of the hub and of the camera, with time advancing
NextStarve ==
    \/ SendLowRequest
    \/ SendHighRequest
    \/ ClockAdvance
    \/ ClockShift
    \/ OpticsControlRun
    \/ SecurityMonitorCheckEventsQ
    \/ CameraTakes

SpecStarve ==
    /\ Init /\ [][NextStarve]_vars
    /\ WF_vars(OpticsControlRun)
    /\ WF_vars(ClockAdvance \/ ClockShift)
    /\ WF_vars(SecurityMonitorCheckEventsQ)
    /\ WF_vars(CameraTakes)

\* the hub, the scheduler, the persistence router and the interceptor
\* together, with the traffic the other components send
NextSystem ==
    \/ SendSystemInput
    \/ CameraSendsUpdate
    \/ ClockAdvance
    \/ SecurityMonitorCheckEventsQ
    \/ OpticsControlRun
    \/ DispatcherCheckEventsQ
    \/ SecurityInterceptorCheckEventsQ

SpecSystem == Init /\ [][NextSystem]_vars

\* the command gate executing a program, for a user of any role (0 is a role
\* no command is permitted to), with and without a registered hub mailbox
InitGate ==
    \E role \in {0, ROLE_CLIENT, ROLE_VIP, ROLE_ADMIN},
       names \in {QueueNames, QueueNames \ {SECURITY_MONITOR_QUEUE_NAME}} :
        Constructed(names, DefaultPolicies, role)

NextGate == CommandInterpreterExecuteSingleCommand

SpecGate == InitGate /\ [][NextGate]_vars

\* the log with the producer of its mailbox and restarts
NextDb == SendToDatabase \/ DatabaseCheckEventsQ \/ DatabaseRestart

SpecDb == Init /\ [][NextDb]_vars

\* the persistence router and the log with the requests the hub forwards
NextPipeline == SendToDispatcher \/ DispatcherCheckEventsQ \/ DatabaseCheckEventsQ

SpecPipeline == Init /\ [][NextPipeline]_vars

\* the log with crashes in the middle of a write
NextDbCrash ==
    SendPhotoRecord \/ DatabaseCheckEventsQ \/ DatabaseCrashInWrite \/ DatabaseRestart

SpecDbCrash == Init /\ [][NextDbCrash]_vars

---------------------------------------------------------------------------
(* Specification of the hub with an arbitrary installed policy list: the   *)
(* list is a field of the hub (security_monitor.py:33), read to examine    *)
(* what validation does with a list other than the constructor's           *)

PolicyConfigs ==
    { DefaultPolicies,
      <<>>,
      <<SecurityPolicy(OPTICS_CONTROL_QUEUE_NAME, ORBIT_DRAWER_QUEUE_NAME, "update_photo_map")>>,
      <<SecurityPolicy("client_alice", "*", "request_photo"),
        SecurityPolicy("*", "security_monitor", "*")>> }

InitPolicy ==
    \E policies \in PolicyConfigs : Constructed(QueueNames, policies, ROLE_ADMIN)

SpecPolicy == InitPolicy /\ [][Next]_vars

---------------------------------------------------------------------------
(* Claims about the hub *)

\* the set of elements of a sequence
Range(seq) == {seq[i] : i \in 1..Len(seq)}

\* the object at the head of the hub's mailbox
HubHead == Head(queues[SECURITY_MONITOR_QUEUE_NAME])

\* the mailboxes with the head of the hub's mailbox taken and nothing else done
HubRest == [queues EXCEPT ![SECURITY_MONITOR_QUEUE_NAME] = Tail(@)]

\* the hub takes an Event from its mailbox in this step
HubTakesEvent == SecurityMonitorCheckEventsQ /\ IsEvent(HubHead)

\* the point lies inside or on the boundary of the zone
InBox(zone, lat, lon) ==
    /\ zone.lat_bot_left <= lat /\ lat <= zone.lat_top_right
    /\ zone.lon_bot_left <= lon /\ lon <= zone.lon_top_right

\* the event is a render message for the map renderer
IsRender(event) ==
    /\ event.destination = ORBIT_DRAWER_QUEUE_NAME
    /\ event.operation = "update_photo_map"
    /\ event.parameters.kind = "tuple"

\* ids of the registered zones that contain the point of a render message
ZonesAround(event) ==
    {z.zone_id : z \in {y \in Range(restricted_zones) :
                          InBox(y, event.parameters.lat, event.parameters.lon)}}

\* validation denies the event: it is a render message whose point is in a zone
GeofenceDenies(event) == IsRender(event) /\ ZonesAround(event) # {}

\* C1: whenever the hub takes a render message for the map renderer whose
\* point lies inside or on the boundary of a zone registered at that moment,
\* the renderer's mailbox is left as it was and a violation naming a zone
\* that contains the point is logged.
C1_GeofenceDenial ==
    [][ (HubTakesEvent /\ GeofenceDenies(HubHead)) =>
          /\ queues'[ORBIT_DRAWER_QUEUE_NAME] = queues[ORBIT_DRAWER_QUEUE_NAME]
          /\ \E id \in ZonesAround(HubHead) :
                \E line \in Range(hub_logged') :
                    line.what = "violation" /\ line.arg = id ]_vars

\* C1 witness: zone 1001 is registered, the render message for (-25, -20) has
\* been taken, the violation names zone 1001 and the renderer got no point.
C1_Witness ==
    /\ Z1001 \in Range(restricted_zones)
    /\ hub_event = RenderEvent(-25, -20, UserExtra)
    /\ LogViolation("alice", 1001) \in Range(hub_logged)
    /\ \A m \in Range(queues[ORBIT_DRAWER_QUEUE_NAME]) : m.operation # "update_photo_map"

\* C2: routing happens only on allow: when validation denies the event the
\* hub took, no mailbox receives anything and the zone set is unchanged.
C2_FailClosed ==
    [][ (HubTakesEvent /\ GeofenceDenies(HubHead)) =>
          /\ queues' = HubRest
          /\ restricted_zones' = restricted_zones ]_vars

\* C2 witness: a render message on the corner of zone 2002 was denied; the
\* renderer holds nothing but the zone's drawing and the other mailboxes are
\* empty.
C2_Witness ==
    /\ hub_event = RenderEvent(0, 0, None)
    /\ LogViolation("unknown", 2002) \in Range(hub_logged)
    /\ restricted_zones = <<Z2002>>
    /\ \A m \in Range(queues[ORBIT_DRAWER_QUEUE_NAME]) : m.operation = "draw_restricted_zone"
    /\ \A n \in DOMAIN queues \ {ORBIT_DRAWER_QUEUE_NAME} : queues[n] = <<>>

\* C3: an allowed event that is no zone command is put once, unchanged, into
\* the mailbox registered under its destination and into no other; with no
\* such mailbox it is dropped with a logged routing failure and no mailbox
\* changes. The zone set is unchanged either way.
C3_VerbatimForward ==
    [][ (/\ HubTakesEvent
         /\ ~GeofenceDenies(HubHead)
         /\ HubHead.operation \notin {"add_restricted_zone", "remove_restricted_zone"}) =>
          /\ restricted_zones' = restricted_zones
          /\ IF HubHead.destination \in DOMAIN queues
             THEN queues' = [HubRest EXCEPT ![HubHead.destination] = Append(@, HubHead)]
             ELSE /\ queues' = HubRest
                  /\ \E line \in Range(hub_logged') :
                        /\ line.level = "ERROR"
                        /\ line.what = "no_receiver"
                        /\ line.arg = HubHead.destination ]_vars

\* C3 witness: with no zone registered the render message for (0, 0) is the
\* last message of the renderer's mailbox, unchanged.
C3_Witness ==
    /\ restricted_zones = <<>>
    /\ hub_event = RenderEvent(0, 0, None)
    /\ queues[ORBIT_DRAWER_QUEUE_NAME] # <<>>
    /\ queues[ORBIT_DRAWER_QUEUE_NAME][Len(queues[ORBIT_DRAWER_QUEUE_NAME])]
         = RenderEvent(0, 0, None)

\* a pattern field matches a value
PatternMatches(pattern, value) == pattern = "*" \/ pattern = value

\* the event matches one of the installed policies
MatchesSomePolicy(event, policies) ==
    \E i \in 1..Len(policies) :
        /\ PatternMatches(policies[i].source, event.source)
        /\ PatternMatches(policies[i].destination, event.destination)
        /\ PatternMatches(policies[i].operation, event.operation)

---------------------------------------------------------------------------
(* Claims about the scheduler *)

\* the capture requests the scheduler has dispatched, in dispatch order: the
\* request_photo messages it has put into the hub's mailbox
Dispatched ==
    SelectSeq(queues[SECURITY_MONITOR_QUEUE_NAME],
              LAMBDA m : IsEvent(m) /\ m.operation = "request_photo"
                         /\ m.source = OPTICS_CONTROL_QUEUE_NAME)

\* request a arrived before request b: the producers number the requests in
\* the order in which they enter the scheduler's FIFO mailbox
ArrivedBefore(a, b) == a.signature.n < b.signature.n

\* a is served before b by the ordering rule: higher priority first, equal
\* priorities in arrival order
Precedes(pa, a, pb, b) == pa > pb \/ (pa = pb /\ ArrivedBefore(a, b))

\* the scheduler dispatches a request in this step
DispatchStep ==
    /\ Len(queues'[SECURITY_MONITOR_QUEUE_NAME]) = Len(queues[SECURITY_MONITOR_QUEUE_NAME]) + 1
    /\ LET m == queues'[SECURITY_MONITOR_QUEUE_NAME][Len(queues'[SECURITY_MONITOR_QUEUE_NAME])]
       IN IsEvent(m) /\ m.operation = "request_photo" /\ m.source = OPTICS_CONTROL_QUEUE_NAME

\* the message put into the hub's mailbox in a dispatch step
DispatchedNow ==
    queues'[SECURITY_MONITOR_QUEUE_NAME][Len(queues'[SECURITY_MONITOR_QUEUE_NAME])]

\* C5 as stated: the sequence of dispatched requests is non-increasing in
\* priority, with equal priorities in arrival order.
C5_DispatchOrder ==
    \A i, j \in 1..Len(Dispatched) :
        i < j => Precedes(Dispatched[i].extra_parameters.priority, Dispatched[i],
                          Dispatched[j].extra_parameters.priority, Dispatched[j])

\* C5 amended: every dispatched request is one of the pending requests, has
\* the highest priority among the requests pending at that moment and is the
\* earliest arrived of that priority; the other pending requests stay.
C5_DispatchBestPending ==
    [][ DispatchStep =>
          \E k \in 1..Len(photo_queue) :
            /\ DispatchedNow.signature = photo_queue[k].signature
            /\ DispatchedNow.extra_parameters.priority = photo_queue[k].priority
            /\ \A i \in 1..Len(photo_queue) :
                 i # k => Precedes(photo_queue[k].priority, photo_queue[k],
                                   photo_queue[i].priority, photo_queue[i])
            /\ Len(photo_queue') = Len(photo_queue) - 1
            /\ \A i \in 1..Len(photo_queue) :
                 i # k => photo_queue[i] \in Range(photo_queue') ]_vars

\* C5 witness: requests with priorities 1, 5, 1 were enqueued in that order
\* and dispatched as 5, first 1, second 1.
C5_Witness ==
    /\ Len(Dispatched) = 3
    /\ Dispatched[1].extra_parameters.priority = 5 /\ Dispatched[1].signature.n = 2
    /\ Dispatched[2].extra_parameters.priority = 1 /\ Dispatched[2].signature.n = 1
    /\ Dispatched[3].extra_parameters.priority = 1 /\ Dispatched[3].signature.n = 3

\* C6: the pending collection is sorted by non-increasing priority with equal
\* priorities in arrival order, so its head is a maximum-priority request and
\* the earliest arrived among those.
C6_QueueSorted ==
    \A i, j \in 1..Len(photo_queue) :
        i < j => Precedes(photo_queue[i].priority, photo_queue[i],
                          photo_queue[j].priority, photo_queue[j])

\* C6 witness: three requests are pending, one of priority 5 that arrived
\* between two of priority 1, and the scheduler is paused.
C6_Witness ==
    /\ Len(photo_queue) = 3
    /\ photo_queue[1].priority = 5 /\ photo_queue[1].signature.n = 2
    /\ photo_queue[2].priority = 1 /\ photo_queue[2].signature.n = 1
    /\ photo_queue[3].priority = 1 /\ photo_queue[3].signature.n = 3

\* C7: a request is dispatched only when the scheduler is not busy, requests
\* are pending and the configured interval has elapsed since the last
\* dispatch time; the dispatch removes the head, sets the last dispatch time
\* to now and ends the tick; the last dispatch time changes only at a
\* dispatch and when the run loop starts.
C7_RateLimit ==
    [][ /\ DispatchStep =>
            /\ ~is_busy
            /\ photo_queue # <<>>
            /\ now - last_photo_time >= photo_interval
            /\ photo_queue' = Tail(photo_queue)
            /\ DispatchedNow.signature = Head(photo_queue).signature
            /\ last_photo_time' = now
            /\ optics_pc = "process" /\ optics_pc' = "loop"
        /\ (optics_pc' = "process" /\ optics_pc # "process") => optics_pc = "dispatch"
        /\ last_photo_time' # last_photo_time =>
            /\ DispatchStep \/ optics_pc = "start"
            /\ last_photo_time' = now ]_vars

\* C7 witness: two requests were dispatched under the default interval, the
\* second one just now.
C7_Witness ==
    /\ Len(Dispatched) = 2
    /\ photo_interval = DefaultPhotoInterval
    /\ last_photo_time = now
    /\ optics_pc = "loop"

\* the scheduler takes a set_photo_interval message with a number in this step
TakesSetInterval ==
    /\ OpticsControlCheckEventsQ
    /\ queues[OPTICS_CONTROL_QUEUE_NAME] # <<>>
    /\ IsEvent(Head(queues[OPTICS_CONTROL_QUEUE_NAME]))
    /\ Head(queues[OPTICS_CONTROL_QUEUE_NAME]).operation = "set_photo_interval"
    /\ Head(queues[OPTICS_CONTROL_QUEUE_NAME]).parameters.kind = "number"

\* the value of the set_photo_interval message at the head of the mailbox
RequestedInterval == Head(queues[OPTICS_CONTROL_QUEUE_NAME]).parameters.value

\* C8: a value outside [0.5, 30.0], 0 and negative values included, leaves
\* the interval unchanged and logs an error; a value inside the range replaces
\* the interval; nothing else of the scheduler's state changes.
C8_IntervalValidation ==
    [][ TakesSetInterval =>
          /\ IF MinPhotoInterval <= RequestedInterval /\ RequestedInterval <= MaxPhotoInterval
             THEN photo_interval' = RequestedInterval
             ELSE /\ photo_interval' = photo_interval
                  /\ \E line \in Range(optics_logged') : line.level = "ERROR"
          /\ photo_queue' = photo_queue
          /\ is_busy' = is_busy
          /\ last_photo_time' = last_photo_time ]_vars

---------------------------------------------------------------------------
(* Claims about the command gate *)

\* the number of messages in the hub's mailbox
HubMailboxLen(qs) ==
    IF Registered(qs, SECURITY_MONITOR_QUEUE_NAME)
    THEN Len(qs[SECURITY_MONITOR_QUEUE_NAME]) ELSE 0

\* the role is in the permission set of the command, read off the table
RolePermitted(role, name) ==
    \E n \in DOMAIN PERMISSIONS : n = name /\ role \in PERMISSIONS[n]

\* the step executes one command of the program
GateStep == gate_seq' = gate_seq + 1

\* the arguments of the command executed in this step pass its validation
ArgumentsValid ==
    gate_command'.name = "ORBIT" =>
        (MinAltitude <= gate_command'.args[1] /\ gate_command'.args[1] <= MaxAltitude)

\* C9 as stated: executing a command puts no message into the hub's mailbox
\* when the role is not permitted the command (or the command is not in the
\* table), and exactly one message when the role is permitted.
C9_PermittedEmitsOne ==
    [][GateStep =>
        IF RolePermitted(gate_role, gate_command'.name)
        THEN HubMailboxLen(queues') = HubMailboxLen(queues) + 1
        ELSE HubMailboxLen(queues') = HubMailboxLen(queues)]_vars

\* C9 amended: executing a command the role is not permitted (or that is not
\* in the table) leaves every mailbox and the counter as they were; executing
\* a permitted command appends exactly one message to the hub's mailbox and
\* counts it when its arguments pass the validation and the hub's mailbox is
\* registered, and leaves every mailbox and the counter as they were otherwise.
C9_PermittedValidEmitsOne ==
    [][GateStep =>
        IF /\ RolePermitted(gate_role, gate_command'.name)
           /\ ArgumentsValid
           /\ Registered(queues, SECURITY_MONITOR_QUEUE_NAME)
        THEN /\ Len(queues'[SECURITY_MONITOR_QUEUE_NAME])
                    = Len(queues[SECURITY_MONITOR_QUEUE_NAME]) + 1
             /\ SubSeq(queues'[SECURITY_MONITOR_QUEUE_NAME], 1,
                       Len(queues[SECURITY_MONITOR_QUEUE_NAME]))
                    = queues[SECURITY_MONITOR_QUEUE_NAME]
             /\ \A n \in DOMAIN queues \ {SECURITY_MONITOR_QUEUE_NAME} :
                    queues'[n] = queues[n]
             /\ command_counter' = command_counter + 1
        ELSE /\ queues' = queues
             /\ command_counter' = command_counter]_vars

\* a VIP has executed a valid ORBIT, which put one message into the hub's
\* mailbox, and then an ADD ZONE, which was denied and put none
C9_Witness ==
    /\ gate_role = ROLE_VIP
    /\ gate_seq = 2
    /\ gate_command.name = "ADD ZONE"
    /\ gate_logged[2].what = "denied"
    /\ command_counter = 1
    /\ Registered(queues, SECURITY_MONITOR_QUEUE_NAME)
    /\ Len(queues[SECURITY_MONITOR_QUEUE_NAME]) = 1
    /\ queues[SECURITY_MONITOR_QUEUE_NAME][1].operation = "change_orbit"

---------------------------------------------------------------------------
(* Claims about the log *)

\* the index stored in the last record of the file
LastStoredIndex == ScanRecords(db_file.bytes, 0, 0).last_i

\* C10: after N records are written and the log is started again on the same
\* file, the next index is N, and every record written after a restart
\* stores the number of records written before it as its index.
C10_RoundTrip ==
    /\ db_restarts > 0 => (db_up /\ db_i = Len(db_records))
    /\ \A k \in 1..Len(db_records) :
          db_records[k].run > 0 => db_records[k].index = k - 1
    /\ (db_records # <<>> /\ db_records[Len(db_records)].run > 0)
          => LastStoredIndex = Len(db_records) - 1

\* two records were written, the log was started again, and a third record
\* was written after the restart
C10_Witness ==
    /\ Len(db_records) = 3
    /\ db_records[2].run = 0
    /\ db_records[3].run = 1
    /\ db_records[3].index = 2
    /\ LastStoredIndex = 2
    /\ db_i = 3

---------------------------------------------------------------------------
(* Claims about the log under crashes *)

\* the number of bytes of the records written so far
RECURSIVE SizeOfRecords(_)
SizeOfRecords(records) ==
    IF records = <<>> THEN 0
    ELSE records[Len(records)].size + SizeOfRecords(SubSeq(records, 1, Len(records) - 1))

\* the file is the records written so far followed by an incomplete record
EndsInIncompleteRecord ==
    /\ db_torn > 0
    /\ Len(db_file.bytes) = SizeOfRecords(db_records) + db_torn

\* the index after the last complete record
IndexAfterLastRecord ==
    IF db_records = <<>> THEN 0 ELSE db_records[Len(db_records)].index + 1

\* the step runs the startup scan
RestartStep == db_restarts' = db_restarts + 1

\* C11: when the file ends in an incomplete record, cut at any byte of its
\* header, name or body, the startup scan raises no error and recovers the
\* index of the last complete record plus one.
C11_RecoveryBoundary ==
    [][(RestartStep /\ EndsInIncompleteRecord) =>
          (db_up' /\ db_i' = IndexAfterLastRecord)]_vars

\* C12: every record appended to the log has an index strictly greater than
\* the index of every record appended before it.
C12_IndexUnique ==
    \A j, k \in 1..Len(db_records) :
        j < k => db_records[j].index < db_records[k].index

---------------------------------------------------------------------------
(* Claims about the status query *)

\* the scheduler takes a get_status message in this step
TakesGetStatus ==
    /\ OpticsControlCheckEventsQ
    /\ queues[OPTICS_CONTROL_QUEUE_NAME] # <<>>
    /\ IsEvent(Head(queues[OPTICS_CONTROL_QUEUE_NAME]))
    /\ Head(queues[OPTICS_CONTROL_QUEUE_NAME]).operation = "get_status"

\* the source of the get_status message at the head of the mailbox
Requester == Head(queues[OPTICS_CONTROL_QUEUE_NAME]).source

\* the mailboxes once the message at the head of the scheduler's is taken
OpticsRest == [queues EXCEPT ![OPTICS_CONTROL_QUEUE_NAME] = Tail(@)]

\* m is a status reply to the requester that carries the current status
IsCurrentStatus(m) ==
    /\ IsEvent(m)
    /\ m.operation = "optics_status"
    /\ m.source = OPTICS_CONTROL_QUEUE_NAME
    /\ m.destination = Requester
    /\ m.parameters.queue_size = Len(photo_queue)
    /\ m.parameters.is_busy = is_busy
    /\ m.parameters.photo_interval = photo_interval
    /\ m.parameters.last_photo_time = last_photo_time

\* the scheduler's own state is as it was before the step
SchedulerStateKept ==
    /\ photo_queue' = photo_queue
    /\ photo_interval' = photo_interval
    /\ is_busy' = is_busy
    /\ last_photo_time' = last_photo_time
    /\ optics_quit' = optics_quit

\* exactly one message, a current status reply, is appended to the
\* requester's mailbox and no other mailbox receives anything
OneReplyToRequester ==
    /\ Registered(queues, Requester)
    /\ Len(queues'[Requester]) = Len(OpticsRest[Requester]) + 1
    /\ SubSeq(queues'[Requester], 1, Len(OpticsRest[Requester])) = OpticsRest[Requester]
    /\ IsCurrentStatus(queues'[Requester][Len(queues'[Requester])])
    /\ \A n \in DOMAIN queues \ {Requester} : queues'[n] = OpticsRest[n]

---------------------------------------------------------------------------
(* Claims about the routing through the hub *)

\* the step of a component with the given mailbox puts messages into no
\* mailbox but the hub's: every other mailbox is as it was, and the
\* component's own has at most lost its head
PutsOnlyIntoHub(own) ==
    /\ \A n \in DOMAIN queues \ {SECURITY_MONITOR_QUEUE_NAME, own} : queues'[n] = queues[n]
    /\ \/ queues'[own] = queues[own]
       \/ queues[own] # <<>> /\ queues'[own] = Tail(queues[own])

\* C14: the scheduler, the persistence router and the interceptor put
\* messages into no mailbox of a component other than the hub, so every
\* message in such a mailbox was put there by the hub.
C14_SingleChokepoint ==
    [][ /\ OpticsControlRun => PutsOnlyIntoHub(OPTICS_CONTROL_QUEUE_NAME)
        /\ DispatcherCheckEventsQ => PutsOnlyIntoHub(DISPATCHER_QUEUE_NAME)
        /\ SecurityInterceptorCheckEventsQ =>
              PutsOnlyIntoHub(SECURITY_INTERCEPTOR_QUEUE_NAME) ]_vars

---------------------------------------------------------------------------
(* Claims about the control plane *)

\* a control message waits in the control mailbox of the running scheduler
ControlPending == optics_control_q # <<>> /\ ~optics_quit

\* C15: a control message placed in the control mailbox of the running
\* scheduler is eventually taken and applied, whatever arrives in the data
\* mailbox.
C15_ControlEventuallyApplied == ControlPending ~> ~ControlPending

\* s is t or t with messages appended: nothing was taken from the mailbox
Extends(s, t) == Len(s) >= Len(t) /\ SubSeq(s, 1, Len(t)) = t

\* C16: once the scheduler has applied stop, the quit flag stays set, the run
\* loop ends at its next loop condition without another tick, nothing is
\* taken from the data or the control mailbox any more, and no control
\* message (a later resume included) is applied.
C16_StopTerminal ==
    [][optics_quit =>
          /\ optics_quit'
          /\ optics_pc' \in {"dispatch", "process", "loop", "done"}
          /\ (optics_pc = "loop" /\ optics_pc' # "loop") => optics_pc' = "done"
          /\ optics_pc = "done" => (optics_pc' = "done" /\ photo_queue' = photo_queue)
          /\ Extends(queues'[OPTICS_CONTROL_QUEUE_NAME], queues[OPTICS_CONTROL_QUEUE_NAME])
          /\ Extends(optics_control_q', optics_control_q)
          /\ is_busy' = is_busy]_vars

\* the scheduler has stopped while paused and its run loop has ended; a
\* resume sent afterwards waits in the control mailbox and the scheduler is
\* still paused
C16_Witness ==
    /\ optics_quit
    /\ optics_pc = "done"
    /\ is_busy
    /\ optics_control_q = <<ControlEvent("resume")>>
    /\ optics_event = ControlEvent("stop")

\* the scheduler takes a request_photo message in this step
TakesPhotoRequest ==
    /\ OpticsControlCheckEventsQ
    /\ queues[OPTICS_CONTROL_QUEUE_NAME] # <<>>
    /\ IsEvent(Head(queues[OPTICS_CONTROL_QUEUE_NAME]))
    /\ Head(queues[OPTICS_CONTROL_QUEUE_NAME]).operation = "request_photo"

\* the scheduler applies the given control operation in this step
Applies(op) ==
    /\ OpticsControlCheckControlQ
    /\ optics_control_q # <<>>
    /\ IsControlEvent(Head(optics_control_q))
    /\ Head(optics_control_q).operation = op

\* C17: while the scheduler is paused it dispatches nothing, not even in the
\* tick that applied the pause: the pending collection loses no request and
\* the hub receives no capture request; its ticks still drain the data
\* mailbox, enqueue request_photo messages and answer get_status queries;
\* resume ends the pause and leaves the pending collection as it is.
C17_PauseResume ==
    [][ /\ Applies("pause") => (is_busy' /\ photo_queue' = photo_queue)
        /\ is_busy =>
             /\ optics_pc' # "process"
             /\ \/ Applies("clear_queue")
                \/ /\ Len(photo_queue') >= Len(photo_queue)
                   /\ \A i \in 1..Len(photo_queue) : photo_queue[i] \in Range(photo_queue')
             /\ last_photo_time' = last_photo_time
             /\ (OpticsControlRun /\ Registered(queues, SECURITY_MONITOR_QUEUE_NAME)) =>
                   queues'[SECURITY_MONITOR_QUEUE_NAME] = queues[SECURITY_MONITOR_QUEUE_NAME]
             /\ (optics_pc = "loop" /\ optics_pc' # "loop" /\ ~optics_quit) =>
                   optics_pc' = "events"
             /\ TakesPhotoRequest => Len(photo_queue') = Len(photo_queue) + 1
             /\ (TakesGetStatus /\ Requester # "" /\ Registered(queues, Requester)) =>
                   OneReplyToRequester
        /\ Applies("resume") => (~is_busy' /\ photo_queue' = photo_queue) ]_vars

\* the scheduler is paused with one request pending; it has answered a
\* status query that reports both, and has ended a tick in which the interval
\* had elapsed without dispatching the request
C17_Witness ==
    /\ is_busy
    /\ optics_pc = "loop"
    /\ Len(photo_queue) = 1
    /\ now - last_photo_time >= photo_interval
    /\ optics_event = GetStatus(CAMERA_QUEUE_NAME)
    /\ Len(queues[CAMERA_QUEUE_NAME]) = 1
    /\ queues[CAMERA_QUEUE_NAME][1].parameters.is_busy
    /\ queues[CAMERA_QUEUE_NAME][1].parameters.queue_size = 1
    /\ Dispatched = <<>>

---------------------------------------------------------------------------
(* Claims about exceptions *)

\* C18: no message terminates a component: the hub's run loop is never left
\* by an exception, the log stays up whatever it takes from its mailbox, and
\* the scheduler's run loop ends only when the quit flag is set.
C18_NoCrash ==
    [][ /\ hub_up => hub_up'
        /\ (db_up /\ DatabaseCheckEventsQ) => db_up'
        /\ (optics_pc # "done" /\ optics_pc' = "done") => optics_quit ]_vars

---------------------------------------------------------------------------
(* Claims about zone management *)

\* no two stored zones have the same id
IdsUnique(zs) ==
    \A i, j \in 1..Len(zs) : zs[i].zone_id = zs[j].zone_id => i = j

\* the stored zones whose id is not the given one
ZonesOtherThan(zs, id) == {z \in Range(zs) : z.zone_id # id}

\* the hub takes an allowed event of the given operation in this step
HubTakesAllowed(op) ==
    /\ HubTakesEvent
    /\ HubHead.operation = op
    /\ CheckEvent(HubHead, restricted_zones).allow

\* the step puts exactly one message into the renderer's mailbox, of the given
\* operation and payload, and nothing into any other mailbox
OneToRenderer(op, payload) ==
    /\ \A n \in DOMAIN queues \ {ORBIT_DRAWER_QUEUE_NAME} : queues'[n] = HubRest[n]
    /\ Len(queues'[ORBIT_DRAWER_QUEUE_NAME]) = Len(HubRest[ORBIT_DRAWER_QUEUE_NAME]) + 1
    /\ SubSeq(queues'[ORBIT_DRAWER_QUEUE_NAME], 1, Len(HubRest[ORBIT_DRAWER_QUEUE_NAME]))
         = HubRest[ORBIT_DRAWER_QUEUE_NAME]
    /\ LET m == queues'[ORBIT_DRAWER_QUEUE_NAME][Len(queues'[ORBIT_DRAWER_QUEUE_NAME])]
       IN /\ m.operation = op
          /\ m.parameters = payload
          /\ m.destination = ORBIT_DRAWER_QUEUE_NAME

\* an allowed add_restricted_zone carrying a zone: the zone is stored under its
\* id in place of any zone of that id, the other zones stay, one
\* draw_restricted_zone goes to the renderer and nothing goes anywhere else
AddStoresAndDraws ==
    (HubTakesAllowed("add_restricted_zone") /\ HubHead.parameters.kind = "RestrictedZone") =>
        /\ Range(restricted_zones')
             = ZonesOtherThan(restricted_zones, HubHead.parameters.zone_id)
               \cup {HubHead.parameters}
        /\ IdsUnique(restricted_zones')
        /\ OneToRenderer("draw_restricted_zone", HubHead.parameters)

\* the zone is gone, the other zones stay, one clear_restricted_zone goes to
\* the renderer and nothing goes anywhere else
RemoveDeletesAndClears ==
    /\ Range(restricted_zones')
         = ZonesOtherThan(restricted_zones, HubHead.parameters.value)
    /\ IdsUnique(restricted_zones')
    /\ OneToRenderer("clear_restricted_zone", HubHead.parameters)

\* C19 as stated: an allowed add_restricted_zone stores its zone under its id
\* in place of any zone of that id and puts exactly one draw_restricted_zone
\* into the renderer's mailbox; an allowed remove_restricted_zone carrying an
\* id deletes the zone of that id and puts exactly one clear_restricted_zone
\* into the renderer's mailbox; neither is put into any other mailbox.
C19_ZoneManagement ==
    [][ /\ AddStoresAndDraws
        /\ (HubTakesAllowed("remove_restricted_zone") /\ HubHead.parameters.kind = "number")
             => RemoveDeletesAndClears ]_vars

\* C19 amended: the same for add_restricted_zone; an allowed
\* remove_restricted_zone whose id names a stored zone deletes that zone and
\* puts exactly one clear_restricted_zone into the renderer's mailbox, and one
\* whose id names no stored zone changes no zone and puts no message anywhere.
C19_ZoneManagementStored ==
    [][ /\ AddStoresAndDraws
        /\ (HubTakesAllowed("remove_restricted_zone") /\ HubHead.parameters.kind = "number")
             => IF HubHead.parameters.value \in ZoneIds(restricted_zones)
                THEN RemoveDeletesAndClears
                ELSE /\ restricted_zones' = restricted_zones
                     /\ queues' = HubRest ]_vars

\* C19 witness: zone 1001 was added, added again with another rectangle by a
\* message addressed to the scheduler, and removed: no zone is stored, the
\* renderer holds the two drawings and the clearing, one each, and the
\* scheduler's mailbox is empty.
C19_Witness ==
    /\ restricted_zones = <<>>
    /\ hub_event = Event("client_alice", "security_monitor", "remove_restricted_zone",
                         Number(1001), UserExtra, None)
    /\ Len(queues[ORBIT_DRAWER_QUEUE_NAME]) = 3
    /\ queues[ORBIT_DRAWER_QUEUE_NAME][1].operation = "draw_restricted_zone"
    /\ queues[ORBIT_DRAWER_QUEUE_NAME][1].parameters = Z1001
    /\ queues[ORBIT_DRAWER_QUEUE_NAME][2].operation = "draw_restricted_zone"
    /\ queues[ORBIT_DRAWER_QUEUE_NAME][2].parameters = Z1001Moved
    /\ queues[ORBIT_DRAWER_QUEUE_NAME][3].operation = "clear_restricted_zone"
    /\ queues[ORBIT_DRAWER_QUEUE_NAME][3].parameters = Number(1001)
    /\ queues[OPTICS_CONTROL_QUEUE_NAME] = <<>>

---------------------------------------------------------------------------
(* Claims about argument validation in the command gate *)

\* the command is an ORBIT whose altitude is outside [MinAltitude, MaxAltitude]
OrbitOutOfRange(cmd) ==
    /\ cmd.name = "ORBIT"
    /\ (cmd.args[1] < MinAltitude \/ cmd.args[1] > MaxAltitude)

\* the last command executed was an ORBIT outside the range, by a permitted role
OrbitRejected ==
    /\ gate_seq > 0
    /\ RolePermitted(gate_role, "ORBIT")
    /\ OrbitOutOfRange(gate_command)

\* C20: when a permitted role executes an ORBIT whose altitude is outside
\* [160000, 2000000], no mailbox changes, the counter keeps its value and the
\* lines logged hold an execution error and no permission denial; and after
\* such a command the next command of the program can still be executed.
C20_OrbitValidation ==
    /\ [][ (GateStep /\ RolePermitted(gate_role, "ORBIT") /\ OrbitOutOfRange(gate_command')) =>
             /\ queues' = queues
             /\ command_counter' = command_counter
             /\ \E i \in 1..Len(gate_logged') :
                    /\ gate_logged'[i].level = "ERROR"
                    /\ gate_logged'[i].what = "execution_error"
             /\ \A i \in 1..Len(gate_logged') : gate_logged'[i].what # "denied" ]_vars
    /\ []((OrbitRejected /\ gate_seq < MaxCommands) =>
             ENABLED CommandInterpreterExecuteSingleCommand)

\* C20 witness: a VIP has executed MAKE PHOTO, which put one message into the
\* hub's mailbox, and then an ORBIT at 2000001: the mailbox still holds that
\* one message, the counter is 1, an execution error is logged and a third
\* command is still to be executed.
C20_Witness ==
    /\ gate_role = ROLE_VIP
    /\ gate_seq = 2
    /\ gate_seq < MaxCommands
    /\ gate_command = Command("ORBIT", <<MaxAltitude + 1, 0, 0>>)
    /\ gate_logged[2].what = "execution_error"
    /\ command_counter = 1
    /\ Len(queues[SECURITY_MONITOR_QUEUE_NAME]) = 1
    /\ queues[SECURITY_MONITOR_QUEUE_NAME][1].operation = "request_photo"
    /\ ENABLED CommandInterpreterExecuteSingleCommand

---------------------------------------------------------------------------
(* Claims about who changes the zones *)

\* the zone command comes from the system's start-up or carries the role of a
\* user who is permitted the gate's command for that operation
AuthorizedZoneMessage(event) ==
    \/ event.source = "system_init"
    \/ /\ "role" \in DOMAIN event.extra_parameters
       /\ \/ /\ event.operation = "add_restricted_zone"
             /\ event.extra_parameters.role \in PERMISSIONS["ADD ZONE"]
          \/ /\ event.operation = "remove_restricted_zone"
             /\ event.extra_parameters.role \in PERMISSIONS["REMOVE ZONE"]

\* C21: the zone set changes only when the hub takes an add_restricted_zone or
\* remove_restricted_zone message that comes from an authorized command: a
\* zone message of any other source, or one carrying a role that is not
\* permitted the command, leaves the zone set as it was.
C21_ZonesOnlyByAuthorized ==
    [][ restricted_zones' # restricted_zones =>
          /\ HubTakesEvent
          /\ HubHead.operation \in {"add_restricted_zone", "remove_restricted_zone"}
          /\ AuthorizedZoneMessage(HubHead) ]_vars

---------------------------------------------------------------------------
(* Claims about the control mailbox *)

\* C22: the control step of a tick drains the control mailbox: whatever was
\* pending when the step started has been taken when it ends, so the control
\* mailbox is then empty, also when an object that is no control message was
\* pending in front of control messages.
C22_ControlDrain ==
    [][ (optics_pc = "control" /\ optics_pc' # "control") =>
          optics_control_q' = <<>> ]_vars

---------------------------------------------------------------------------
(* Claims about the hub's drain *)

\* C23: the hub never puts a message back into its own mailbox: a step in
\* which the hub takes a message leaves its mailbox one message shorter,
\* whatever the destination of the message, so a finite content is drained
\* in as many steps as there are messages.
C23_HubNeverFeedsItself ==
    [][ HubTakesEvent =>
          queues'[SECURITY_MONITOR_QUEUE_NAME]
            = Tail(queues[SECURITY_MONITOR_QUEUE_NAME]) ]_vars

---------------------------------------------------------------------------
(* Claims about the messages the scheduler emits *)

\* the scheduler dispatches the request at the head of the pending collection
DispatchesRequest ==
    /\ OpticsControlProcessNextPhotoRequest
    /\ photo_queue # <<>>

\* the last message of a mailbox
Last(q) == q[Len(q)]

\* the step appends exactly one message to the hub's mailbox and leaves every
\* other mailbox as the given mailboxes have it
OneToHub(qs) ==
    /\ Len(queues'[SECURITY_MONITOR_QUEUE_NAME]) = Len(qs[SECURITY_MONITOR_QUEUE_NAME]) + 1
    /\ SubSeq(queues'[SECURITY_MONITOR_QUEUE_NAME], 1, Len(qs[SECURITY_MONITOR_QUEUE_NAME]))
         = qs[SECURITY_MONITOR_QUEUE_NAME]
    /\ \A n \in DOMAIN queues \ {SECURITY_MONITOR_QUEUE_NAME} : queues'[n] = qs[n]

\* C24: each dispatched request puts exactly one request_photo message into
\* the hub's mailbox and nothing into any other mailbox, the capture device's
\* included; the message names the scheduler as source and the capture device
\* as destination and carries the request's timestamp as parameters, the
\* request's priority in extra_parameters and the request's signature; and
\* every such message in the hub's mailbox carries the signature and the
\* priority (1 when none was given) of a capture request that was sent.
C24_DispatchMessage ==
    [][ DispatchesRequest =>
          /\ OneToHub(queues)
          /\ LET m == Last(queues'[SECURITY_MONITOR_QUEUE_NAME])
                 request == Head(photo_queue)
             IN /\ IsEvent(m)
                /\ m.operation = "request_photo"
                /\ m.source = OPTICS_CONTROL_QUEUE_NAME
                /\ m.destination = CAMERA_QUEUE_NAME
                /\ m.parameters = request.timestamp
                /\ "priority" \in DOMAIN m.extra_parameters
                /\ m.extra_parameters.priority = request.priority
                /\ m.signature = request.signature ]_vars
    /\ [](\A i \in 1..Len(queues[SECURITY_MONITOR_QUEUE_NAME]) :
             LET m == queues[SECURITY_MONITOR_QUEUE_NAME][i]
             IN (IsEvent(m) /\ m.operation = "request_photo"
                   /\ m.source = OPTICS_CONTROL_QUEUE_NAME) =>
                  \E n \in 1..MaxSent : \E e \in DataInputs(n) :
                     /\ e.operation = "request_photo"
                     /\ m.signature = e.signature
                     /\ m.extra_parameters.priority =
                          (IF "priority" \in DOMAIN e.extra_parameters
                           THEN e.extra_parameters.priority ELSE 1)
                     /\ m.parameters \in {e.parameters, None})

\* C24 witness: the request sent first, with timestamp 17 and priority 5, has
\* been dispatched: the hub's mailbox holds its request_photo message with
\* that timestamp, priority and signature, and the capture device's mailbox is
\* empty.
C24_Witness ==
    /\ queues[SECURITY_MONITOR_QUEUE_NAME] =
         <<Event(OPTICS_CONTROL_QUEUE_NAME, CAMERA_QUEUE_NAME, "request_photo",
                 Number(17), [priority |-> 5], Signature("photo", 1))>>
    /\ queues[CAMERA_QUEUE_NAME] = <<>>
    /\ photo_queue = <<>>
    /\ optics_pc = "loop"

\* the scheduler takes, in this step, an Event of the given operation from
\* its data mailbox
TakesData(op) ==
    /\ OpticsControlCheckEventsQ
    /\ queues[OPTICS_CONTROL_QUEUE_NAME] # <<>>
    /\ IsEvent(Head(queues[OPTICS_CONTROL_QUEUE_NAME]))
    /\ Head(queues[OPTICS_CONTROL_QUEUE_NAME]).operation = op

\* the data message the scheduler takes in this step
OpticsHead == Head(queues[OPTICS_CONTROL_QUEUE_NAME])

\* the mailboxes with the head of the scheduler's mailbox taken
OpticsRestQ == [queues EXCEPT ![OPTICS_CONTROL_QUEUE_NAME] = Tail(@)]

\* C25: when the scheduler handles a post_photo message whose payload is a
\* (latitude, longitude) pair, exactly one update_photo_map message addressed
\* to the map renderer is put into the hub's mailbox and nothing into any
\* other mailbox, the renderer's included; it carries the same point, the same
\* extra_parameters and the same signature; the pending collection, the busy
\* flag, the interval and the last dispatch time keep their values.
C25_PostPhotoRerouted ==
    [][ (TakesData("post_photo") /\ OpticsHead.parameters.kind = "tuple") =>
          /\ OneToHub(OpticsRestQ)
          /\ LET m == Last(queues'[SECURITY_MONITOR_QUEUE_NAME])
             IN /\ IsEvent(m)
                /\ m.operation = "update_photo_map"
                /\ m.destination = ORBIT_DRAWER_QUEUE_NAME
                /\ m.parameters = OpticsHead.parameters
                /\ m.extra_parameters = OpticsHead.extra_parameters
                /\ m.signature = OpticsHead.signature
          /\ photo_queue' = photo_queue
          /\ is_busy' = is_busy
          /\ photo_interval' = photo_interval
          /\ last_photo_time' = last_photo_time ]_vars

\* C25 witness: a request is pending and the photo of (-25, -20) sent second
\* has been handled: the hub's mailbox holds its update_photo_map message
\* with the photo's extra parameters and signature, the renderer's mailbox is
\* empty and the request is still pending.
C25_Witness ==
    /\ queues[SECURITY_MONITOR_QUEUE_NAME] =
         <<Event(OPTICS_CONTROL_QUEUE_NAME, ORBIT_DRAWER_QUEUE_NAME, "update_photo_map",
                 Point(-25, -20), [user |-> "alice", priority |-> 5],
                 Signature("photo", 2))>>
    /\ queues[ORBIT_DRAWER_QUEUE_NAME] = <<>>
    /\ Len(photo_queue) = 1
    /\ optics_event.operation = "post_photo"

---------------------------------------------------------------------------
(* Claims about the persistence pipeline *)

\* the bytes of a file that holds the given records in their order
RECURSIVE FileOf(_)
FileOf(records) ==
    IF records = <<>> THEN <<>>
    ELSE FileOf(SubSeq(records, 1, Len(records) - 1))
         \o RecordBytes(records[Len(records)].index, records[Len(records)].latitude,
                        records[Len(records)].longitude)

\* the persistence router takes a request to store a photo in this step
RouterTakesRequest ==
    /\ DispatcherCheckEventsQ
    /\ Head(queues[DISPATCHER_QUEUE_NAME]).operation = "req_add_photo_to_data_base"

\* the log takes an add_photo message in this step
LogTakesAddPhoto ==
    /\ DatabaseCheckEventsQ
    /\ Head(queues[DATABASE_QUEUE_NAME]).operation = "add_photo"

\* C26: a req_add_photo_to_data_base message handled by the persistence router
\* puts exactly one add_photo message with the same latitude and longitude into
\* the log's mailbox; an add_photo message handled by the log appends exactly
\* one record with that latitude and longitude, whose index is the number of
\* records before it; and the file holds the records in the order in which the
\* router received the requests (the n-th request sent carries latitude n),
\* with consecutive indices.
C26_Pipeline ==
    /\ [][ RouterTakesRequest =>
             /\ Len(queues'[DATABASE_QUEUE_NAME]) = Len(queues[DATABASE_QUEUE_NAME]) + 1
             /\ SubSeq(queues'[DATABASE_QUEUE_NAME], 1, Len(queues[DATABASE_QUEUE_NAME]))
                  = queues[DATABASE_QUEUE_NAME]
             /\ Last(queues'[DATABASE_QUEUE_NAME]).operation = "add_photo"
             /\ Last(queues'[DATABASE_QUEUE_NAME]).parameters
                  = Head(queues[DISPATCHER_QUEUE_NAME]).parameters
             /\ \A n \in DOMAIN queues \ {DATABASE_QUEUE_NAME, DISPATCHER_QUEUE_NAME} :
                   queues'[n] = queues[n] ]_vars
    /\ [][ LogTakesAddPhoto =>
             /\ Len(db_records') = Len(db_records) + 1
             /\ SubSeq(db_records', 1, Len(db_records)) = db_records
             /\ Last(db_records').latitude = Head(queues[DATABASE_QUEUE_NAME]).parameters.lat
             /\ Last(db_records').longitude = Head(queues[DATABASE_QUEUE_NAME]).parameters.lon ]_vars
    /\ [](/\ db_file.bytes = FileOf(db_records)
          /\ \A k \in 1..Len(db_records) : db_records[k].index = k - 1
          /\ \A j, k \in 1..Len(db_records) :
                j < k => db_records[j].latitude < db_records[k].latitude)

\* C26 witness: three requests were sent, the photos at latitudes 1, 2 and 3,
\* and all went through the router and the log: the file holds three records
\* with indices 0, 1, 2 in the order of the requests and both mailboxes are
\* empty.
C26_Witness ==
    /\ Len(db_records) = 3
    /\ \A k \in 1..3 : db_records[k].latitude = k /\ db_records[k].index = k - 1
    /\ db_records[2].longitude = 70
    /\ db_file.bytes = FileOf(db_records)
    /\ queues[DISPATCHER_QUEUE_NAME] = <<>>
    /\ queues[DATABASE_QUEUE_NAME] = <<>>

---------------------------------------------------------------------------
(* Claims about the order of forwarded messages *)

\* the messages of a mailbox that were forwarded by the hub: those that carry
\* the mark of a producer's put
Forwarded(q) == SelectSeq(q, LAMBDA m : IsEvent(m) /\ m.signature # None)

\* C27: in every mailbox other than the hub's, the forwarded messages lie in
\* the order in which they were put into the hub's mailbox: of two forwarded
\* messages with the same destination, the one put into the hub's mailbox
\* first is in front.
C27_OrderPreserved ==
    \A d \in DOMAIN queues \ {SECURITY_MONITOR_QUEUE_NAME} :
        \A i, j \in 1..Len(Forwarded(queues[d])) :
            i < j => Forwarded(queues[d])[i].signature.n < Forwarded(queues[d])[j].signature.n

\* C27 witness: the first and the third message went to the renderer and the
\* second to the camera; the renderer holds the first in front of the third.
C27_Witness ==
    /\ Len(Forwarded(queues[ORBIT_DRAWER_QUEUE_NAME])) = 2
    /\ Forwarded(queues[ORBIT_DRAWER_QUEUE_NAME])[1].signature.n = 1
    /\ Forwarded(queues[ORBIT_DRAWER_QUEUE_NAME])[2].signature.n = 3
    /\ Len(queues[CAMERA_QUEUE_NAME]) = 1
    /\ queues[CAMERA_QUEUE_NAME][1].signature.n = 2
    /\ queues[SECURITY_MONITOR_QUEUE_NAME] = <<>>

---------------------------------------------------------------------------
(* Claims about what the scheduler's operations leave alone *)

\* C28: clear_queue empties the pending collection and leaves every mailbox,
\* the interval, the busy flag and the last dispatch time as they were; the
\* busy flag changes only in a step that applies pause, which sets it, or
\* resume, which clears it: no data message and no dispatch changes it.
C28_ControlFrame ==
    [][ /\ Applies("clear_queue") =>
             /\ photo_queue' = <<>>
             /\ queues' = queues
             /\ photo_interval' = photo_interval
             /\ is_busy' = is_busy
             /\ last_photo_time' = last_photo_time
        /\ is_busy' # is_busy =>
             \/ Applies("pause") /\ is_busy'
             \/ Applies("resume") /\ ~is_busy' ]_vars

\* C28 witness: the request sent first was pending and clear_queue, sent
\* second, removed it without a dispatch; the busy flag is still clear, the
\* interval is the default and the request sent third waits in the data
\* mailbox.
C28_Witness ==
    /\ optics_event = ControlEvent("clear_queue")
    /\ optics_pc = "dispatch"
    /\ photo_queue = <<>>
    /\ queues[SECURITY_MONITOR_QUEUE_NAME] = <<>>
    /\ Len(queues[OPTICS_CONTROL_QUEUE_NAME]) = 1
    /\ queues[OPTICS_CONTROL_QUEUE_NAME][1].signature = Signature("photo", 3)
    /\ photo_interval = DefaultPhotoInterval
    /\ ~is_busy

\* the scheduler takes, in this step, an Event whose operation it does not know
TakesUnknown ==
    /\ OpticsControlCheckEventsQ
    /\ queues[OPTICS_CONTROL_QUEUE_NAME] # <<>>
    /\ IsEvent(OpticsHead)
    /\ OpticsHead.operation \notin
         {"request_photo", "post_photo", "set_photo_interval", "get_status"}

\* C29: a data message of an operation other than request_photo, post_photo,
\* set_photo_interval and get_status changes no part of the scheduler's state
\* and puts no message into any mailbox, and the drain of the tick goes on
\* with the messages behind it.
C29_UnknownIgnored ==
    [][ TakesUnknown =>
          /\ queues' = OpticsRestQ
          /\ photo_queue' = photo_queue
          /\ photo_interval' = photo_interval
          /\ is_busy' = is_busy
          /\ last_photo_time' = last_photo_time
          /\ optics_quit' = optics_quit
          /\ optics_control_q' = optics_control_q
          /\ optics_pc' = "events" ]_vars

\* C29 witness: a telemetry message, sent first, has just been taken: nothing
\* is pending, no mailbox but the scheduler's holds anything, the drain is
\* still running and the capture request sent second is the next to be taken.
C29_Witness ==
    /\ optics_event = Event(CAMERA_QUEUE_NAME, OPTICS_CONTROL_QUEUE_NAME, "telemetry",
                            Number(1), None, None)
    /\ optics_pc = "events"
    /\ photo_queue = <<>>
    /\ photo_interval = DefaultPhotoInterval
    /\ \A n \in DOMAIN queues \ {OPTICS_CONTROL_QUEUE_NAME} : queues[n] = <<>>
    /\ queues[OPTICS_CONTROL_QUEUE_NAME]
         = <<TimedRequest(Number(17), [priority |-> 5], 2)>>

---------------------------------------------------------------------------
(* Claims about render messages without readable coordinates *)

\* the hub takes, in this step, an update_photo_map message for the renderer
\* whose parameters are no pair of coordinates
TakesUnreadableRender ==
    /\ HubTakesEvent
    /\ HubHead.destination = ORBIT_DRAWER_QUEUE_NAME
    /\ HubHead.operation = "update_photo_map"
    /\ HubHead.parameters.kind # "tuple"

\* C30: while at least one zone is registered, an update_photo_map message for
\* the renderer whose parameters are absent or are no pair of coordinates is
\* not forwarded: the renderer's mailbox is left as it was.
C30_FailClosed ==
    [][ (TakesUnreadableRender /\ restricted_zones # <<>>) =>
          queues'[ORBIT_DRAWER_QUEUE_NAME] = queues[ORBIT_DRAWER_QUEUE_NAME] ]_vars

---------------------------------------------------------------------------
(* Claims about the session counter of the command gate *)

\* C31: the counter of the command gate equals the number of messages the gate
\* has put into the hub's mailbox: a step that puts a message adds one to it,
\* a step that puts none (permission denial, rejected arguments, no hub
\* mailbox) leaves it; and the signatures of the messages put in one session
\* are pairwise distinct.
C31_SessionCounter ==
    /\ [](command_counter = HubMailboxLen(queues))
    /\ [][GateStep =>
            command_counter' - command_counter
              = HubMailboxLen(queues') - HubMailboxLen(queues)]_vars
    /\ [](Registered(queues, SECURITY_MONITOR_QUEUE_NAME) =>
            \A i, j \in 1..Len(queues[SECURITY_MONITOR_QUEUE_NAME]) :
               i # j => queues[SECURITY_MONITOR_QUEUE_NAME][i].signature
                          # queues[SECURITY_MONITOR_QUEUE_NAME][j].signature)

\* C31 witness: a VIP has executed MAKE PHOTO, an ADD ZONE that was denied and
\* MAKE PHOTO again: the counter is 2 and the hub's mailbox holds the two
\* capture requests, signed with the numbers 0 and 1.
C31_Witness ==
    /\ gate_role = ROLE_VIP
    /\ gate_seq = 3
    /\ command_counter = 2
    /\ Registered(queues, SECURITY_MONITOR_QUEUE_NAME)
    /\ Len(queues[SECURITY_MONITOR_QUEUE_NAME]) = 2
    /\ queues[SECURITY_MONITOR_QUEUE_NAME][1].signature = Signature("photo", 0)
    /\ queues[SECURITY_MONITOR_QUEUE_NAME][2].signature = Signature("photo", 1)

---------------------------------------------------------------------------
(* Claims about starvation *)

\* the capture request of priority 1 is in the pending collection
LowPending == \E i \in 1..Len(photo_queue) : photo_queue[i].priority = 1

\* C32: with the run loop scheduled fairly and time advancing, a capture
\* request that is pending is eventually dispatched (the scheduler is neither
\* stopped nor paused and nothing clears the collection), also while requests
\* of a higher priority keep arriving.
C32_NoStarvation == LowPending ~> ~LowPending

---------------------------------------------------------------------------
(* Claims about dispatching after stop *)

\* C33: once the scheduler has applied stop, the hub's mailbox receives no
\* further capture request, not even in the rest of the tick that applied the
\* stop, and the pending collection stays as it was.
C33_NoDispatchAfterStop ==
    [][ optics_quit =>
          /\ queues'[SECURITY_MONITOR_QUEUE_NAME] = queues[SECURITY_MONITOR_QUEUE_NAME]
          /\ photo_queue' = photo_queue ]_vars

---------------------------------------------------------------------------
(* Claims about zone commands that change nothing *)

\* the hub takes an allowed remove_restricted_zone whose id names no stored zone
TakesRemoveOfUnknown ==
    /\ HubTakesAllowed("remove_restricted_zone")
    /\ HubHead.parameters.kind = "number"
    /\ HubHead.parameters.value \notin ZoneIds(restricted_zones)

\* the hub takes an allowed add_restricted_zone whose payload is no zone
TakesAddOfNoZone ==
    /\ HubTakesAllowed("add_restricted_zone")
    /\ HubHead.parameters.kind # "RestrictedZone"

\* C34: a remove_restricted_zone message whose id is not registered, and an
\* add_restricted_zone message whose payload is no zone object, leave the zone
\* set as it was and put no message into any mailbox: nothing for the
\* renderer and no forward to the destination of the message.
C34_NoOpZoneCommands ==
    [][ (TakesRemoveOfUnknown \/ TakesAddOfNoZone) =>
          /\ restricted_zones' = restricted_zones
          /\ \A n \in DOMAIN queues : queues'[n] = HubRest[n] ]_vars

\* C34 witness: zone 1001 is stored and drawn, all three messages sent have
\* been taken and the last one taken is a remove of zone 2002, which is not
\* stored, addressed to the renderer: zone 1001 is still the only zone and the
\* renderer's mailbox holds nothing but its drawing.
C34_Witness ==
    /\ sent = 3
    /\ restricted_zones = <<Z1001>>
    /\ hub_event = Event("client_alice", ORBIT_DRAWER_QUEUE_NAME, "remove_restricted_zone",
                         Number(2002), UserExtra, None)
    /\ queues[SECURITY_MONITOR_QUEUE_NAME] = <<>>
    /\ Len(queues[ORBIT_DRAWER_QUEUE_NAME]) = 1
    /\ queues[ORBIT_DRAWER_QUEUE_NAME][1].operation = "draw_restricted_zone"
    /\ \A n \in DOMAIN queues \ {ORBIT_DRAWER_QUEUE_NAME} : queues[n] = <<>>

====
